---- MODULE Spec2Model ----
(***************************************************************************)
(* ContextVault: the identity nucleus of the backend.                      *)
(*                                                                         *)
(*   backend/app/services/state_store.py   OAuthStateStore, SessionStore,  *)
(*                                          UserStore                      *)
(*   backend/app/services/auth_service.py  initiate_google_oauth,          *)
(*                                          handle_google_callback,        *)
(*                                          refresh_access_token, logout   *)
(*   backend/app/core/security.py          PKCE, tokens, hashing           *)
(*   backend/app/core/oauth.py             discovery, key set, id token    *)
(*   backend/app/api/auth.py               the HTTP wrappers               *)
(*                                                                         *)
(* Three specifications:                                                   *)
(*   Spec       the request flows.  The handlers are coroutines on one     *)
(*              event loop, so a handler runs without interruption from    *)
(*              one await of a provider call to the next; one action is    *)
(*              one such stretch.  Concurrent requests, at one instant.    *)
(*   SpecTimed  the same flows with the clock advancing, one request at    *)
(*              a time.                                                    *)
(*   SpecStore  OAuthStateStore called from several threads, one action    *)
(*              per statement, with its threading.Lock.                    *)
(*                                                                         *)
(* Values of the CSPRNG (secrets.token_urlsafe, secrets.token_bytes) are   *)
(* modelled as fresh: the k-th state token is <<"state", k>>, and so on.   *)
(* Time is in seconds.                                                     *)
(***************************************************************************)
EXTENDS Integers, Sequences, FiniteSets, TLC

VARIABLES
    now,              \* datetime.utcnow(), in seconds
    ticks,            \* how often the clock has advanced (bounded)
    oauth_store,      \* OAuthStateStore._store : state -> data with expires_at
    sessions,         \* SessionStore._sessions : refresh_token_hash -> session
    users,            \* UserStore._users : user_id -> user data
    google_id_index,  \* UserStore._google_id_index : google_id -> user_id
    email_index,      \* UserStore._email_index : email -> user_id
    req,              \* the requests in flight: slot -> the coroutine's locals
    last,             \* the response this step sent, NoResponse if none
    issued,           \* history: what the k-th initiation generated and when
    logins,           \* history: what the j-th successful callback returned
    loggedOut,        \* history: the refresh tokens logout was called with
    lock,             \* SpecStore: OAuthStateStore._lock, its holder or 0
    thr,              \* SpecStore: thread -> its call and position
    hist,             \* SpecStore: per state token, the calls since its save
    concurrent,       \* history: the states of the callbacks in flight when the
                      \*          j-th successful callback returned
    revoked,          \* history: the refresh tokens delete_user_sessions revoked
    jwt,              \* SpecToken: an access token and how its verification ended
    aead,             \* SpecCrypto: a plaintext, its key, the blob, the decryption
    db,               \* SpecVault: the users, vault_items, tags and vault_item_tags
                      \*            tables of the database
    vault,            \* SpecVault: the vault request this step served and its answer
    written,          \* history: item id -> the content its owner wrote last
    held              \* SpecLocks: store -> the request inside its `with self._lock:`, or 0

vars == <<now, ticks, oauth_store, sessions, users, google_id_index, email_index,
          req, last, issued, logins, loggedOut, lock, thr, hist, concurrent, revoked, jwt, aead,
          db, vault, written, held>>

storeVars == <<oauth_store, sessions, users, google_id_index, email_index>>
raceVars == <<lock, thr, hist>>
vaultVars == <<db, vault, written>>
extVars == <<revoked, jwt, aead, vaultVars, held>>
flowVars == <<sessions, users, google_id_index, email_index, req, last,
              issued, logins, loggedOut>>

----------------------------------------------------------------------------
(* Bounds of the model *)

MaxInit == 2        \* login initiations (state tokens generated)
NumSlots == 2       \* requests in flight at once
MaxTicks == 2       \* clock advances
NumThreads == 2     \* SpecStore: threads calling the store
MaxCalls == 3       \* SpecStore: calls counted per state token

(* Program constants *)

STATE_TTL_SECONDS == 300
ACCESS_TOKEN_EXPIRE_MINUTES == 30
REFRESH_TOKEN_EXPIRE_DAYS == 30
SECONDS_PER_DAY == 86400

(* Inputs *)

Slots == 1..NumSlots
Stores == {"oauth", "session", "user"}
Threads == 1..NumThreads
TickSteps == {1, STATE_TTL_SECONDS, REFRESH_TOKEN_EXPIRE_DAYS * SECONDS_PER_DAY}
GoogleIds == {"g1", "g2"}
Emails == {"a@x.org", "b@x.org"}
Names == {"", "Ann"}
Codes == {"code1"}
RedirectTargets == {"", "/app"}
TokenStatuses == {200, 302, 400}

----------------------------------------------------------------------------
(* Python dicts as functions; Optional values as sequences of length 0 or 1 *)

EmptyDict == [k \in {} |-> k]
DictSet(d, k, v) == [x \in (DOMAIN d) \cup {k} |-> IF x = k THEN v ELSE d[x]]
DictDel(d, k) == [x \in (DOMAIN d) \ {k} |-> d[x]]
None == <<>>
Some(v) == <<v>>

(* core/security.py *)

StateToken(k) == <<"state", k>>
Verifier(k) == <<"verifier", k>>
Nonce(k) == <<"nonce", k>>
RefreshToken(j) == <<"rt", j>>
UserId(n) == <<"user", n>>

\* generate_pkce_pair: the challenge is the S256 digest of the verifier
S256(verifier) == <<"S256", verifier[1], verifier[2]>>

\* hash_refresh_token: SHA-256, hex encoded
hash_refresh_token_Raw(token) == token
hash_refresh_token(token) == <<"sha256", token[1], token[2]>>

\* create_access_token: the claims, exp and iat, signed with JWT_SECRET_KEY
create_access_token_Seconds(user_id, email, t) ==
    [user_id |-> user_id, email |-> email,
     exp |-> t + ACCESS_TOKEN_EXPIRE_MINUTES, iat |-> t,
     key |-> "JWT_SECRET_KEY"]
create_access_token(user_id, email, t) ==
    [user_id |-> user_id, email |-> email,
     exp |-> t + ACCESS_TOKEN_EXPIRE_MINUTES * 60, iat |-> t,
     key |-> "JWT_SECRET_KEY"]

\* jose.jwt.decode(token, key, algorithms=["HS256"]): the signature first, then
\* exp against the clock; no claim is required
TokenPayload(token) == [f \in (DOMAIN token) \ {"key"} |-> token[f]]
TokenExpired(t, exp) == exp < t
jwt_decode(token, key, t) ==
    IF token.key # key
    THEN [ok |-> FALSE, error |-> "JWTError", payload |-> None]
    ELSE IF "exp" \in DOMAIN token /\ TokenExpired(t, token.exp)
    THEN [ok |-> FALSE, error |-> "ExpiredSignatureError", payload |-> None]
    ELSE [ok |-> TRUE, error |-> "", payload |-> Some(TokenPayload(token))]

\* verify_access_token: the payload, or the JWTError of jwt.decode raised again
verify_access_token_Unchecked(token, t) ==
    [ok |-> TRUE, error |-> "", payload |-> Some(TokenPayload(token))]
verify_access_token(token, t) == jwt_decode(token, "JWT_SECRET_KEY", t)

----------------------------------------------------------------------------
(* OAuthStateStore *)

\* dict.pop(key, None): the value if present, and the dict without the key
PopValue_AnyEntry(d, k) ==
    IF k \in DOMAIN d THEN Some(d[k])
    ELSE IF DOMAIN d # {} THEN Some(d[CHOOSE x \in DOMAIN d : TRUE]) ELSE None
PopValue(d, k) == IF k \in DOMAIN d THEN Some(d[k]) ELSE None
PopRest_Keep(d, k) == d
PopRest(d, k) == DictDel(d, k)

\* datetime.utcnow() > data["expires_at"]
StateExpired_AtExpiry(t, expires_at) == t >= expires_at
StateExpired(t, expires_at) == t > expires_at

\* data.pop("expires_at"); return data
WithoutExpiry(data) ==
    [code_verifier |-> data.code_verifier, nonce |-> data.nonce,
     redirect_to |-> data.redirect_to]

save_oauth_state(store, state, data, ttl_seconds, t) ==
    DictSet(store, state,
            [code_verifier |-> data.code_verifier, nonce |-> data.nonce,
             redirect_to |-> data.redirect_to, expires_at |-> t + ttl_seconds])

\* cleanup_expired_states: the store without the entries past their expiry
cleanup_expired_states(store, t) ==
    LET expired_keys == {state \in DOMAIN store : t > store[state].expires_at}
    IN  [state \in (DOMAIN store) \ expired_keys |-> store[state]]

\* get_oauth_state as one step: [store, ret]
get_oauth_state(store, state, t) ==
    LET popped == PopValue(store, state)
        rest == PopRest(store, state)
    IN  IF popped = None THEN [store |-> rest, ret |-> None]
        ELSE IF StateExpired(t, popped[1].expires_at) THEN [store |-> rest, ret |-> None]
        ELSE [store |-> rest, ret |-> Some(WithoutExpiry(popped[1]))]

----------------------------------------------------------------------------
(* SessionStore *)

create_session_NoDays(ss, user_id, refresh_token_hash, ttl_days, t) ==
    DictSet(ss, refresh_token_hash,
            [user_id |-> user_id, created_at |-> t, expires_at |-> t + ttl_days])
create_session_Single(ss, user_id, refresh_token_hash, ttl_days, t) ==
    DictSet([g \in {x \in DOMAIN ss : ss[x].user_id # user_id} |-> ss[g]],
            refresh_token_hash,
            [user_id |-> user_id, created_at |-> t,
             expires_at |-> t + ttl_days * SECONDS_PER_DAY])
create_session(ss, user_id, refresh_token_hash, ttl_days, t) ==
    DictSet(ss, refresh_token_hash,
            [user_id |-> user_id, created_at |-> t,
             expires_at |-> t + ttl_days * SECONDS_PER_DAY])

\* datetime.utcnow() > session["expires_at"]
SessionExpired_AtExpiry(t, expires_at) == t >= expires_at
SessionExpired(t, expires_at) == t > expires_at

\* get_session: [sessions, ret]; an expired session is deleted on the read
get_session_Sliding(ss, refresh_token_hash, t) ==
    IF refresh_token_hash \notin DOMAIN ss THEN [sessions |-> ss, ret |-> None]
    ELSE IF SessionExpired(t, ss[refresh_token_hash].expires_at)
         THEN [sessions |-> DictDel(ss, refresh_token_hash), ret |-> None]
    ELSE LET renewed == [ss[refresh_token_hash] EXCEPT
                           !.expires_at = t + REFRESH_TOKEN_EXPIRE_DAYS * SECONDS_PER_DAY]
         IN  [sessions |-> DictSet(ss, refresh_token_hash, renewed), ret |-> Some(renewed)]
get_session(ss, refresh_token_hash, t) ==
    IF refresh_token_hash \notin DOMAIN ss THEN [sessions |-> ss, ret |-> None]
    ELSE IF SessionExpired(t, ss[refresh_token_hash].expires_at)
         THEN [sessions |-> DictDel(ss, refresh_token_hash), ret |-> None]
    ELSE [sessions |-> ss, ret |-> Some(ss[refresh_token_hash])]

\* cleanup_expired_sessions: the store without the sessions past their expiry
cleanup_expired_sessions(ss, t) ==
    LET expired_hashes == {token_hash \in DOMAIN ss : t > ss[token_hash].expires_at}
    IN  [token_hash \in (DOMAIN ss) \ expired_hashes |-> ss[token_hash]]

delete_session_Noop(ss, refresh_token_hash) == ss
delete_session_Every(ss, refresh_token_hash) == EmptyDict
delete_session(ss, refresh_token_hash) == DictDel(ss, refresh_token_hash)

\* delete_user_sessions: every session of user_id is deleted
delete_user_sessions_One(ss, user_id) ==
    LET to_delete == {h \in DOMAIN ss : ss[h].user_id = user_id}
    IN  IF to_delete = {} THEN ss ELSE DictDel(ss, CHOOSE h \in to_delete : TRUE)
delete_user_sessions(ss, user_id) ==
    LET to_delete == {h \in DOMAIN ss : ss[h].user_id = user_id}
    IN  [h \in (DOMAIN ss) \ to_delete |-> ss[h]]

----------------------------------------------------------------------------
(* UserStore *)

\* create_user: [users, google_id_index, email_index, ret]; the user's created_at,
\* which nothing reads, is left out
create_user(us, gidx, eidx, google_id, email, name, picture) ==
    LET user_id == UserId(Cardinality(DOMAIN us) + 1)
        user_data == [id |-> user_id, google_id |-> google_id, email |-> email,
                      name |-> name, picture_url |-> picture]
    IN  [users |-> DictSet(us, user_id, user_data),
         google_id_index |-> DictSet(gidx, google_id, user_id),
         email_index |-> DictSet(eidx, email, user_id),
         ret |-> user_data]

get_user(us, user_id) == IF user_id \in DOMAIN us THEN Some(us[user_id]) ELSE None

get_user_by_google_id_Miss(us, gidx, google_id) == None
get_user_by_google_id(us, gidx, google_id) ==
    IF google_id \in DOMAIN gidx THEN get_user(us, gidx[google_id]) ELSE None

----------------------------------------------------------------------------
(* What the identity provider may answer *)

\* GET {issuer}/.well-known/openid-configuration: failed, or a document
DiscoveryDocs ==
    [ok : BOOLEAN, authorization_endpoint : BOOLEAN, token_endpoint : BOOLEAN,
     jwks_uri : BOOLEAN]

\* a provider-signed id token as the token endpoint returns it: jwt_ok is what
\* jwt.decode checks (signature, issuer, audience, expiry), nonce the nonce claim
IdTokens ==
    {[jwt_ok |-> FALSE, nonce |-> None]} \cup
    [jwt_ok : {TRUE}, nonce : {None} \cup {Some(Nonce(k)) : k \in 1..Len(issued)}]

\* the identity claims jwt.decode yields for a valid id token
Claims ==
    { [sub |-> s, email |-> e, name |-> nm, picture |-> IF nm = "" THEN "" ELSE "pic.png"] :
        s \in GoogleIds \cup {""}, e \in Emails \cup {""}, nm \in Names }

\* POST token_endpoint: failed, or a status with a body
ExchangeResponses ==
    {[net_ok |-> FALSE, status_code |-> 0, json_ok |-> FALSE, id_token |-> None]} \cup
    { [net_ok |-> TRUE, status_code |-> s, json_ok |-> j, id_token |-> i] :
        s \in TokenStatuses, j \in BOOLEAN,
        i \in {None} \cup {Some(tok) : tok \in IdTokens} }

\* validate_id_token: TRUE when it returns the claims, FALSE when it raises
\* HTTPException(400); the nonce is checked only when one is expected
NonceMatches_Unchecked(id_token, nonce) == TRUE
NonceMatches(id_token, nonce) == id_token.nonce = Some(nonce)
validate_id_token_Skip(id_token, nonce) == TRUE
validate_id_token(id_token, nonce) ==
    /\ id_token.jwt_ok
    /\ (nonce # None => NonceMatches(id_token, nonce[1]))

----------------------------------------------------------------------------
(* Requests and responses *)

\* the locals of a handler; lookup is how get_oauth_state ended for it
IdleReq ==
    [kind |-> "", pc |-> "idle", state |-> StateToken(0), code |-> "",
     refresh_token |-> RefreshToken(0), lookup |-> "",
     code_verifier |-> Verifier(0), nonce |-> Nonce(0), jwks_uri |-> FALSE,
     posted |-> None, status_code |-> 0, id_token |-> None, steps |-> <<>>,
     sub |-> "", user_id |-> None]

NoResponse ==
    [kind |-> "", status |-> 0, detail |-> "", body |-> None, req |-> IdleReq]

\* the response to the handler with these locals; status is the HTTP status
Response(locals, status, detail, body) ==
    [kind |-> locals.kind, status |-> status, detail |-> detail, body |-> body,
     req |-> [locals EXCEPT !.pc = "done"]]

\* a new request takes the lowest free slot
FreeSlot(r) ==
    /\ req[r].pc = "idle"
    /\ \A q \in Slots : q < r => req[q].pc # "idle"

\* the token and the cipher variables outside their specifications
NoJwt == [token |-> None, result |-> None, prev |-> None]
NoAead == [plaintext |-> <<>>, key |-> <<>>, produced |-> None, blob |-> None,
           touched |-> {}, edits |-> 0, before |-> None, result |-> None]
\* the database without a row behind a session of sqlalchemy.orm, no vault
\* request served
EmptyDb == [session |-> "Session", users |-> EmptyDict, vault_items |-> <<>>,
            tags |-> EmptyDict, vault_item_tags |-> {}, next_tag |-> 1,
            commits |-> 0]
NoVault == db = EmptyDb /\ vault = None /\ written = EmptyDict

----------------------------------------------------------------------------
(* The state after construction: empty stores, no request *)

\* no request in flight, no state entry, no thread in the store
InitQuiet ==
    /\ now = 0
    /\ ticks = 0
    /\ oauth_store = EmptyDict
    /\ req = [r \in Slots |-> IdleReq]
    /\ last = NoResponse
    /\ loggedOut = {}
    /\ lock = 0
    /\ thr = [t \in Threads |-> [pc |-> "idle", op |-> "", state |-> StateToken(0),
                                 data |-> None, at |-> 0, ret |-> None, raced |-> FALSE]]
    /\ hist = [state \in {StateToken(1)} |->
                 [saved |-> FALSE, expires_at |-> 0, started |-> 0, returned |-> 0,
                  served |-> 0]]
    /\ revoked = {}
    /\ held = [s \in Stores |-> 0]

\* no request, no state, no session, the histories empty
InitRequests ==
    /\ InitQuiet
    /\ sessions = EmptyDict
    /\ issued = <<>>
    /\ logins = <<>>
    /\ concurrent = <<>>

\* the request flows start with an empty user store
InitFlows ==
    /\ InitRequests
    /\ users = EmptyDict
    /\ google_id_index = EmptyDict
    /\ email_index = EmptyDict

Init == InitFlows /\ jwt = NoJwt /\ aead = NoAead /\ NoVault

\* the clock advances
Tick ==
    /\ ticks < MaxTicks
    /\ \E d \in TickSteps : now' = now + d
    /\ ticks' = ticks + 1
    /\ last' = NoResponse
    /\ UNCHANGED <<extVars, concurrent, storeVars, req, issued, logins, loggedOut, raceVars>>

----------------------------------------------------------------------------
(* initiate_google_oauth, behind GET /api/auth/google/login *)

\* up to the await of fetch_oidc_config: PKCE pair, state, nonce, save
InitiateStart(r, redirect_to) ==
    /\ FreeSlot(r)
    /\ Len(issued) < MaxInit
    /\ LET k == Len(issued) + 1
           code_verifier == Verifier(k)
           state == StateToken(k)
           nonce == Nonce(k)
       IN  /\ oauth_store' =
                 save_oauth_state(oauth_store, state,
                     [code_verifier |-> code_verifier, nonce |-> nonce,
                      redirect_to |-> redirect_to],
                     STATE_TTL_SECONDS, now)
           /\ req' = [req EXCEPT ![r] =
                 [IdleReq EXCEPT !.kind = "initiate", !.pc = "discovery",
                                 !.state = state, !.code_verifier = code_verifier,
                                 !.nonce = nonce, !.steps = <<"save", "discovery">>]]
           /\ issued' = Append(issued, [state |-> state, code_verifier |-> code_verifier,
                                        nonce |-> nonce, saved_at |-> now])
    /\ last' = NoResponse
    /\ UNCHANGED <<extVars, concurrent, now, ticks, sessions, users, google_id_index, email_index,
                   logins, loggedOut, raceVars>>

\* the authorization URL's query parameters
AuthUrlParams(r) ==
    [client_id |-> "GOOGLE_OAUTH_CLIENT_ID", redirect_uri |-> "GOOGLE_OAUTH_REDIRECT_URI",
     response_type |-> "code", scope |-> "openid profile email",
     state |-> req[r].state, nonce |-> req[r].nonce,
     code_challenge |-> S256(req[r].code_verifier), code_challenge_method |-> "S256"]

\* from the discovery answer to the redirect (or the unhandled exception)
InitiateDiscoveryReturns(r, doc) ==
    /\ req[r].kind = "initiate" /\ req[r].pc = "discovery"
    /\ last' = IF doc.ok /\ doc.authorization_endpoint
               THEN Response([req[r] EXCEPT !.steps = Append(@, "redirect")], 307, "",
                             Some(AuthUrlParams(r)))
               ELSE Response(req[r], 500, "Internal Server Error", None)
    /\ req' = [req EXCEPT ![r] = IdleReq]
    /\ UNCHANGED <<extVars, concurrent, now, ticks, storeVars, issued, logins, loggedOut, raceVars>>

----------------------------------------------------------------------------
(* handle_google_callback, behind GET /api/auth/google/callback.  The     *)
(* wrapper google_callback passes an HTTPException on and turns any other *)
(* exception into a 500.                                                  *)

\* the handler in slot r, with these locals, raises
Fail(r, locals, status, detail) ==
    /\ last' = Response(locals, status, detail, None)
    /\ req' = [req EXCEPT ![r] = IdleReq]

\* the handler in slot r goes on to its next await
Await(r, locals, pc, step) ==
    /\ req' = [req EXCEPT ![r] = [locals EXCEPT !.pc = pc, !.steps = Append(@, step)]]
    /\ last' = NoResponse

\* up to the await of fetch_oidc_config: the state is taken from the store
CallbackStart(r, code, state) ==
    /\ FreeSlot(r)
    /\ LET got == get_oauth_state(oauth_store, state, now)
           locals == [IdleReq EXCEPT
                        !.kind = "callback", !.state = state, !.code = code,
                        !.steps = <<"state">>,
                        !.lookup = IF state \notin DOMAIN oauth_store THEN "absent"
                                   ELSE IF got.ret = None THEN "expired" ELSE "valid"]
       IN  /\ oauth_store' = got.store
           /\ IF got.ret = None
              THEN /\ last' = Response(locals, 400, "Invalid or expired state", None)
                   /\ req' = req
              ELSE Await(r, [locals EXCEPT !.code_verifier = got.ret[1].code_verifier,
                                           !.nonce = got.ret[1].nonce],
                         "discovery", "discovery")
    /\ UNCHANGED <<extVars, concurrent, now, ticks, sessions, users, google_id_index, email_index,
                   issued, logins, loggedOut, raceVars>>

\* from the discovery answer to the await of the token POST
CallbackDiscoveryReturns(r, doc) ==
    /\ req[r].kind = "callback" /\ req[r].pc = "discovery"
    /\ IF ~doc.ok \/ ~doc.token_endpoint
       THEN Fail(r, req[r], 500, "Login failed")
       ELSE Await(r, [req[r] EXCEPT
                        !.jwks_uri = doc.jwks_uri,
                        !.posted = Some([code |-> req[r].code,
                                         code_verifier |-> req[r].code_verifier])],
                  "exchange", "exchange")
    /\ UNCHANGED <<extVars, concurrent, now, ticks, storeVars, issued, logins, loggedOut, raceVars>>

\* from the token endpoint's answer to the await of fetch_jwks
CallbackExchangeReturns(r, resp) ==
    /\ req[r].kind = "callback" /\ req[r].pc = "exchange"
    /\ LET answered == [req[r] EXCEPT !.status_code = resp.status_code]
           parsed == [answered EXCEPT !.id_token = resp.id_token]
       IN  IF ~resp.net_ok THEN Fail(r, req[r], 500, "Login failed")
           ELSE IF resp.status_code >= 400
           THEN Fail(r, answered, 401, "Token exchange failed")
           ELSE IF ~resp.json_ok THEN Fail(r, answered, 500, "Login failed")
           ELSE IF resp.id_token = None THEN Fail(r, parsed, 400, "Missing id_token")
           ELSE IF ~req[r].jwks_uri THEN Fail(r, parsed, 500, "Missing JWKS URI")
           ELSE Await(r, parsed, "jwks", "jwks")
    /\ UNCHANGED <<extVars, concurrent, now, ticks, storeVars, issued, logins, loggedOut, raceVars>>

\* the login response
LoginResponse(access_token, refresh_token, user) ==
    [access_token |-> access_token, refresh_token |-> refresh_token,
     token_type |-> "bearer", expires_in |-> ACCESS_TOKEN_EXPIRE_MINUTES * 60,
     user |-> [id |-> user.id, email |-> user.email, name |-> user.name,
               picture_url |-> user.picture_url]]

\* from the key set's answer to the end: validation, identity, tokens, session
CallbackJwksReturns(r, jwks_ok, claims) ==
    /\ req[r].kind = "callback" /\ req[r].pc = "jwks"
    /\ LET validated == validate_id_token(req[r].id_token[1], Some(req[r].nonce))
           tried == [req[r] EXCEPT !.steps = Append(@, "validate")]
           found == get_user_by_google_id(users, google_id_index, claims.sub)
           created == create_user(users, google_id_index, email_index, claims.sub,
                                  claims.email, claims.name, claims.picture)
           user == IF found = None THEN created.ret ELSE found[1]
           access_token == create_access_token(user.id, user.email, now)
           refresh_token == RefreshToken(Len(logins) + 1)
           refresh_token_hash == hash_refresh_token(refresh_token)
       IN  IF ~jwks_ok
           THEN Fail(r, req[r], 500, "Login failed") /\ UNCHANGED <<storeVars, logins, concurrent>>
           ELSE IF ~validated
           THEN Fail(r, tried, 400, "id_token validation failed")
                /\ UNCHANGED <<storeVars, logins, concurrent>>
           ELSE IF claims.sub = "" \/ claims.email = ""
           THEN Fail(r, tried, 400, "Missing user info in id_token")
                /\ UNCHANGED <<storeVars, logins, concurrent>>
           ELSE /\ IF found = None
                   THEN /\ users' = created.users
                        /\ google_id_index' = created.google_id_index
                        /\ email_index' = created.email_index
                   ELSE UNCHANGED <<users, google_id_index, email_index>>
                /\ sessions' = create_session(sessions, user.id, refresh_token_hash,
                                              REFRESH_TOKEN_EXPIRE_DAYS, now)
                /\ last' = Response([tried EXCEPT
                                        !.steps = @ \o <<"user", "tokens", "session">>],
                                    200, "",
                                    Some(LoginResponse(access_token, refresh_token, user)))
                /\ req' = [req EXCEPT ![r] = IdleReq]
                /\ logins' = Append(logins, [refresh_token |-> refresh_token,
                                             user_id |-> user.id, created_at |-> now])
                /\ concurrent' = Append(concurrent,
                                         {req[q].state : q \in {x \in Slots \ {r} :
                                                                  req[x].kind = "callback"}})
                /\ UNCHANGED oauth_store
    /\ UNCHANGED <<extVars, now, ticks, issued, loggedOut, raceVars>>

----------------------------------------------------------------------------
(* refresh_access_token and logout: no await of a provider, one action each *)

RefreshResponse(access_token) ==
    [access_token |-> access_token, token_type |-> "bearer",
     expires_in |-> ACCESS_TOKEN_EXPIRE_MINUTES * 60]

refresh_access_token(refresh_token) ==
    LET token_hash == hash_refresh_token(refresh_token)
        got == get_session(sessions, token_hash, now)
        user == IF got.ret = None THEN None ELSE get_user(users, got.ret[1].user_id)
        locals == [IdleReq EXCEPT !.kind = "refresh", !.refresh_token = refresh_token]
    IN  /\ sessions' = got.sessions
        /\ last' =
             IF got.ret = None
             THEN Response([locals EXCEPT !.steps = <<"session">>], 401,
                           "Invalid or expired refresh token", None)
             ELSE IF user = None
             THEN Response([locals EXCEPT !.steps = <<"session", "user">>], 401,
                           "User not found", None)
             ELSE Response([locals EXCEPT !.steps = <<"session", "user", "tokens">>],
                           200, "",
                           Some(RefreshResponse(
                               create_access_token(user[1].id, user[1].email, now))))
        /\ UNCHANGED <<extVars, concurrent, now, ticks, oauth_store, users, google_id_index, email_index,
                       req, issued, logins, loggedOut, raceVars>>

logout(refresh_token) ==
    /\ sessions' = delete_session(sessions, hash_refresh_token(refresh_token))
    /\ last' = Response([IdleReq EXCEPT !.kind = "logout", !.refresh_token = refresh_token,
                                        !.steps = <<"delete">>],
                        204, "", None)
    /\ loggedOut' = loggedOut \cup {t \in {refresh_token} : \E j \in 1..Len(logins) :
                                                           logins[j].refresh_token = t}
    /\ UNCHANGED <<extVars, concurrent, now, ticks, oauth_store, users, google_id_index, email_index,
                   req, issued, logins, raceVars>>

----------------------------------------------------------------------------

\* the request flows, with their requests in the slots S and the identity
\* claims of the id tokens drawn from C
Initiate(S) == \E r \in S, redirect_to \in RedirectTargets : InitiateStart(r, redirect_to)
InitiateReturns(S) == \E r \in S, doc \in DiscoveryDocs : InitiateDiscoveryReturns(r, doc)
Callback(S) ==
    \E r \in S, code \in Codes, k \in 0..Len(issued) : CallbackStart(r, code, StateToken(k))
CallbackDiscovery(S) == \E r \in S, doc \in DiscoveryDocs : CallbackDiscoveryReturns(r, doc)
CallbackExchange(S) == \E r \in S, resp \in ExchangeResponses : CallbackExchangeReturns(r, resp)
CallbackJwks(S, C) ==
    \E r \in S, jwks_ok \in BOOLEAN, claims \in C : CallbackJwksReturns(r, jwks_ok, claims)
Refresh == \E j \in 0..Len(logins) : refresh_access_token(RefreshToken(j))
Logout == \E j \in 0..Len(logins) : logout(RefreshToken(j))

\* Spec: concurrent requests at one instant of the clock
Next ==
    \/ Initiate(Slots)
    \/ InitiateReturns(Slots)
    \/ Callback(Slots)
    \/ CallbackDiscovery(Slots)
    \/ CallbackExchange(Slots)
    \/ CallbackJwks(Slots, Claims)
    \/ Refresh
    \/ Logout

Spec == Init /\ [][Next]_vars

\* SpecTimed: the same flows with the clock advancing, one request at a time
\* and unnamed identities
PlainClaims == {c \in Claims : c.name = ""}

NextTimed ==
    \/ Tick
    \/ Initiate({1})
    \/ InitiateReturns({1})
    \/ Callback({1})
    \/ CallbackDiscovery({1})
    \/ CallbackExchange({1})
    \/ CallbackJwks({1}, PlainClaims)
    \/ Refresh
    \/ Logout

SpecTimed == Init /\ [][NextTimed]_vars

\* SpecSweep: the flows of SpecTimed as time goes on.  The clock advances
\* whatever the clients do; no request has to arrive, and nothing in the
\* application calls cleanup_expired_states or cleanup_expired_sessions (no
\* startup hook, no background task, no route).
SpecSweep == Init /\ [][NextTimed]_vars /\ WF_vars(Tick)

\* SpecSessions: the request flows and SessionStore.delete_user_sessions
\* ("logout all devices"), called for the identity user_id
DeleteUserSessions(user_id) ==
    /\ sessions' = delete_user_sessions(sessions, user_id)
    /\ revoked' = revoked \cup {logins[j].refresh_token :
                                  j \in {i \in 1..Len(logins) : logins[i].user_id = user_id}}
    /\ last' = NoResponse
    /\ UNCHANGED <<now, ticks, oauth_store, users, google_id_index, email_index,
                   req, issued, logins, loggedOut, raceVars, jwt, aead, vaultVars,
                   concurrent, held>>

LogoutEverywhere == \E n \in 1..MaxInit : DeleteUserSessions(UserId(n))

NextSessions ==
    \/ Initiate(Slots)
    \/ InitiateReturns(Slots)
    \/ Callback(Slots)
    \/ CallbackDiscovery(Slots)
    \/ CallbackExchange(Slots)
    \/ CallbackJwks(Slots, Claims)
    \/ Refresh
    \/ Logout
    \/ LogoutEverywhere

SpecSessions == Init /\ [][NextSessions]_vars

----------------------------------------------------------------------------
(* SpecStore: OAuthStateStore under threads.  `with self._lock:` is the    *)
(* acquire at its head and the release as the method returns; every        *)
(* statement in between is one action.                                     *)

StoreKeys == {StateToken(1)}

\* what initiate_google_oauth saves under the k-th state token
StateData(state) ==
    [code_verifier |-> Verifier(state[2]), nonce |-> Nonce(state[2]), redirect_to |-> ""]

InFlight(t) == thr[t].pc # "idle"

\* a thread calls save_oauth_state(state, data, ttl_seconds=300)
CallSave(t, state) ==
    /\ ~InFlight(t)
    /\ thr' = [thr EXCEPT ![t] = [pc |-> "acquire", op |-> "save", state |-> state,
                                  data |-> None, at |-> 0, ret |-> None, raced |-> FALSE]]
    /\ UNCHANGED <<extVars, concurrent, now, ticks, storeVars, req, last, issued, logins, loggedOut, lock, hist>>

\* a thread calls get_oauth_state(state)
CallGet(t, state) ==
    /\ ~InFlight(t)
    /\ hist[state].started < MaxCalls
    /\ LET rivals == {u \in Threads \ {t} : InFlight(u) /\ thr[u].op = "get"
                                            /\ thr[u].state = state}
       IN  thr' = [u \in Threads |->
                     IF u = t
                     THEN [pc |-> "acquire", op |-> "get", state |-> state, data |-> None,
                           at |-> 0, ret |-> None, raced |-> rivals # {}]
                     ELSE IF u \in rivals THEN [thr[u] EXCEPT !.raced = TRUE]
                     ELSE thr[u]]
    /\ hist' = [hist EXCEPT ![state].started = @ + 1]
    /\ UNCHANGED <<extVars, concurrent, now, ticks, storeVars, req, last, issued, logins, loggedOut, lock>>

\* with self._lock: (blocks while another thread holds it)
LockFree(t) == lock = 0
Acquire(t) ==
    /\ thr[t].pc = "acquire"
    /\ LockFree(t)
    /\ lock' = t
    /\ thr' = [thr EXCEPT ![t].pc = IF thr[t].op = "save" THEN "utcnow" ELSE "pop"]
    /\ UNCHANGED <<extVars, concurrent, now, ticks, storeVars, req, last, issued, logins, loggedOut, hist>>

\* expires_at = datetime.utcnow() + timedelta(seconds=ttl_seconds)
SaveUtcnow(t) ==
    /\ thr[t].pc = "utcnow"
    /\ thr' = [thr EXCEPT ![t].pc = "write", ![t].at = now]
    /\ UNCHANGED <<extVars, concurrent, now, ticks, storeVars, req, last, issued, logins, loggedOut, lock, hist>>

\* self._store[state] = {**data, "expires_at": expires_at}
SaveWrite(t) ==
    /\ thr[t].pc = "write"
    /\ oauth_store' = save_oauth_state(oauth_store, thr[t].state, StateData(thr[t].state),
                                       STATE_TTL_SECONDS, thr[t].at)
    /\ lock' = IF lock = t THEN 0 ELSE lock
    /\ thr' = [thr EXCEPT ![t].pc = "idle", ![t].at = 0]
    /\ hist' = [hist EXCEPT ![thr[t].state] =
                   [saved |-> TRUE, expires_at |-> thr[t].at + STATE_TTL_SECONDS,
                    started |-> 0, returned |-> 0, served |-> 0]]
    /\ UNCHANGED <<extVars, concurrent, now, ticks, sessions, users, google_id_index, email_index,
                   req, last, issued, logins, loggedOut>>

\* data = self._store.pop(state, None)
GetPop(t) ==
    /\ thr[t].pc = "pop"
    /\ thr' = [thr EXCEPT ![t].pc = "check_none",
                          ![t].data = PopValue(oauth_store, thr[t].state)]
    /\ oauth_store' = PopRest(oauth_store, thr[t].state)
    /\ UNCHANGED <<extVars, concurrent, now, ticks, sessions, users, google_id_index, email_index,
                   req, last, issued, logins, loggedOut, lock, hist>>

\* the method returns ret and the lock is released
GetReturns(t, ret) ==
    /\ thr' = [thr EXCEPT ![t].pc = "idle", ![t].ret = ret]
    /\ lock' = IF lock = t THEN 0 ELSE lock
    /\ hist' = [hist EXCEPT ![thr[t].state].returned = @ + 1,
                            ![thr[t].state].served = IF ret = None THEN @ ELSE @ + 1]

\* if data is None: return None
GetCheckNone(t) ==
    /\ thr[t].pc = "check_none"
    /\ IF thr[t].data = None
       THEN GetReturns(t, None)
       ELSE /\ thr' = [thr EXCEPT ![t].pc = "check_expiry"]
            /\ UNCHANGED <<lock, hist>>
    /\ UNCHANGED <<extVars, concurrent, now, ticks, storeVars, req, last, issued, logins, loggedOut>>

\* if datetime.utcnow() > data["expires_at"]: return None
GetCheckExpiry(t) ==
    /\ thr[t].pc = "check_expiry"
    /\ IF StateExpired(now, thr[t].data[1].expires_at)
       THEN GetReturns(t, None)
       ELSE /\ thr' = [thr EXCEPT ![t].pc = "return"]
            /\ UNCHANGED <<lock, hist>>
    /\ UNCHANGED <<extVars, concurrent, now, ticks, storeVars, req, last, issued, logins, loggedOut>>

\* data.pop("expires_at"); return data
GetReturnData(t) ==
    /\ thr[t].pc = "return"
    /\ GetReturns(t, Some(WithoutExpiry(thr[t].data[1])))
    /\ UNCHANGED <<extVars, concurrent, now, ticks, storeVars, req, last, issued, logins, loggedOut>>

NextStore ==
    \/ Tick
    \/ \E t \in Threads, state \in StoreKeys : CallSave(t, state)
    \/ \E t \in Threads, state \in StoreKeys : CallGet(t, state)
    \/ \E t \in Threads : Acquire(t)
    \/ \E t \in Threads : SaveUtcnow(t)
    \/ \E t \in Threads : SaveWrite(t)
    \/ \E t \in Threads : GetPop(t)
    \/ \E t \in Threads : GetCheckNone(t)
    \/ \E t \in Threads : GetCheckExpiry(t)
    \/ \E t \in Threads : GetReturnData(t)

SpecStore == Init /\ [][NextStore]_vars

----------------------------------------------------------------------------
(* SpecToken: an access token is issued and then presented, as issued, signed
   with another key or without user_id, as the clock advances:
   verify_access_token, auth_service.get_current_user behind GET /api/auth/me,
   and get_current_user of the vault routes *)

MaxTokenTicks == 3
TokenTickSteps == {60, (ACCESS_TOKEN_EXPIRE_MINUTES - 1) * 60}
Schemes == {"Basic", "Bearer"}
\* the users row of the database for the token's user_id: none, or one with
\* a hex or a non-hex encryption_salt
DbRows == {None, Some([google_id |-> "g1", salt_is_hex |-> TRUE]),
           Some([google_id |-> "g1", salt_is_hex |-> FALSE])}

Answer(status, detail, body) == [status |-> status, detail |-> detail, body |-> body]

\* auth_service.get_current_user
get_current_user(access_token, us, t) ==
    LET verified == verify_access_token(access_token, t)
        payload == verified.payload[1]
        user == get_user(us, payload.user_id)
    IN  IF ~verified.ok THEN Answer(401, "Invalid or expired token", None)
        ELSE IF "user_id" \notin DOMAIN payload
        THEN Answer(401, "Invalid token payload", None)
        ELSE IF user = None THEN Answer(401, "User not found", None)
        ELSE Answer(200, "", Some([id |-> user[1].id, email |-> user[1].email,
                                   name |-> user[1].name,
                                   picture_url |-> user[1].picture_url]))

\* GET /api/auth/me
me(scheme, access_token, us, t) ==
    IF scheme # "Bearer" THEN Answer(401, "Invalid authorization header", None)
    ELSE get_current_user(access_token, us, t)

\* get_current_user of api/vault.py: the HTTPException raised for a payload
\* without user_id is caught by the except Exception around it
vault_get_current_user(authorization, access_token, row, t) ==
    LET verified == verify_access_token(access_token, t)
        payload == verified.payload[1]
    IN  IF authorization = None \/ authorization[1] # "Bearer"
        THEN Answer(401, "Missing or invalid authorization header", None)
        ELSE IF ~verified.ok \/ "user_id" \notin DOMAIN payload
        THEN Answer(401, "Invalid or expired token", None)
        ELSE IF row = None THEN Answer(401, "User not found", None)
        ELSE IF ~row[1].salt_is_hex
        THEN Answer(500, "Failed to derive encryption key", None)
        ELSE Answer(200, "", Some([id |-> payload.user_id,
                                   google_id |-> row[1].google_id]))

\* what is wrong with the token at time t
Defects(token, t) ==
    {d \in {"signature"} : token.key # "JWT_SECRET_KEY"}
    \cup {d \in {"expired"} : token.exp < t}
    \cup {d \in {"claims"} : "user_id" \notin DOMAIN token}

\* the result of a verification by the function or endpoint `by`
Verdict(by, scheme, token, ok, error, answer) ==
    [by |-> by, scheme |-> scheme, token |-> token, at |-> now,
     defects |-> Defects(token, now), ok |-> ok, error |-> error,
     status |-> answer.status, detail |-> answer.detail]

Record(verdict) == jwt' = [jwt EXCEPT !.prev = jwt.result, !.result = Some(verdict)]

tokenFrame == <<ticks, storeVars, req, last, issued, logins, loggedOut, raceVars,
                concurrent, revoked, aead, vaultVars, held>>

TokenTick ==
    /\ ticks < MaxTokenTicks
    /\ \E d \in TokenTickSteps : now' = now + d
    /\ ticks' = ticks + 1
    /\ UNCHANGED <<jwt, storeVars, req, last, issued, logins, loggedOut, raceVars,
                   concurrent, revoked, aead, vaultVars, held>>

\* create_access_token({"user_id": ..., "email": ...}) for the first identity
IssueAccessToken ==
    /\ jwt.token = None
    /\ jwt' = [jwt EXCEPT !.token = Some(create_access_token(UserId(1), "a@x.org", now))]
    /\ UNCHANGED <<now, tokenFrame>>

\* what a client can present in place of the issued token: the token itself,
\* its claims signed with a key that is not the server's, and a token of
\* create_access_token({"email": ...}), whose payload has no user_id
Forged(token) == [token EXCEPT !.key = "another key"]
WithoutUserId(token) == [f \in (DOMAIN token) \ {"user_id"} |-> token[f]]
Presentable(token) == {token, Forged(token), WithoutUserId(token)}

VerifyAccessToken ==
    /\ jwt.token # None
    /\ \E token \in Presentable(jwt.token[1]) :
          LET verified == verify_access_token(token, now)
          IN  Record(Verdict("verify_access_token", "", token, verified.ok,
                             verified.error, Answer(0, "", None)))
    /\ UNCHANGED <<now, tokenFrame>>

GetMe ==
    /\ jwt.token # None
    /\ \E token \in Presentable(jwt.token[1]), scheme \in Schemes :
          LET answer == me(scheme, token, users, now)
          IN  Record(Verdict("me", scheme, token, answer.status = 200, "", answer))
    /\ UNCHANGED <<now, tokenFrame>>

VaultGetCurrentUser ==
    /\ jwt.token # None
    /\ \E token \in Presentable(jwt.token[1]), row \in DbRows,
          authorization \in {None} \cup {Some(x) : x \in Schemes} :
          LET answer == vault_get_current_user(authorization, token, row, now)
              scheme == IF authorization = None THEN "" ELSE authorization[1]
          IN  Record(Verdict("vault", scheme, token, answer.status = 200, "", answer))
    /\ UNCHANGED <<now, tokenFrame>>

\* the user store holds the first identity, or has lost it (a restart)
InitToken ==
    /\ InitRequests
    /\ aead = NoAead
    /\ jwt = NoJwt
    /\ NoVault
    /\ \E registered \in BOOLEAN :
          LET created == create_user(EmptyDict, EmptyDict, EmptyDict,
                                     "g1", "a@x.org", "", "")
          IN  /\ users = IF registered THEN created.users ELSE EmptyDict
              /\ google_id_index =
                    IF registered THEN created.google_id_index ELSE EmptyDict
              /\ email_index = IF registered THEN created.email_index ELSE EmptyDict

NextToken ==
    \/ TokenTick
    \/ IssueAccessToken
    \/ VerifyAccessToken
    \/ GetMe
    \/ VaultGetCurrentUser

SpecToken == InitToken /\ [][NextToken]_vars

----------------------------------------------------------------------------
(* core/encryption.py: encrypt_content and decrypt_content.  A str is a
   sequence of code points (Unicode scalar values), bytes are a sequence of
   0..255, a base64 string is a sequence of sextets 0..63 with 64 for "=". *)

NONCE_SIZE == 12
TAG_SIZE == 16
AES_KEY_SIZE == 32

\* str.encode('utf-8')
RECURSIVE Utf8Encode(_)
Utf8Encode(text) ==
    IF text = <<>> THEN <<>>
    ELSE LET cp == Head(text)
             first == IF cp < 128 THEN <<cp>>
                      ELSE IF cp < 2048 THEN <<192 + (cp \div 64), 128 + (cp % 64)>>
                      ELSE <<224 + (cp \div 4096), 128 + ((cp \div 64) % 64), 128 + (cp % 64)>>
         IN  first \o Utf8Encode(Tail(text))

\* bytes.decode('utf-8'): [ok, text]; UnicodeDecodeError on a stray or missing
\* continuation byte, an overlong form, a surrogate or a lead byte above 0xEF
Continuation(b) == b \in 128..191
RECURSIVE Utf8Decode(_)
Utf8Decode(bytes) ==
    IF bytes = <<>> THEN [ok |-> TRUE, text |-> <<>>]
    ELSE LET b == bytes[1]
             n == IF b < 128 THEN 1 ELSE IF b \in 194..223 THEN 2
                  ELSE IF b \in 224..239 THEN 3 ELSE 0
             wellFormed ==
                /\ n # 0 /\ Len(bytes) >= n
                /\ \A i \in 2..n : Continuation(bytes[i])
                /\ b = 224 => bytes[2] >= 160
                /\ b = 237 => bytes[2] <= 159
             cp == IF n = 1 THEN b
                   ELSE IF n = 2 THEN (b - 192) * 64 + (bytes[2] - 128)
                   ELSE (b - 224) * 4096 + (bytes[2] - 128) * 64 + (bytes[3] - 128)
             rest == Utf8Decode(SubSeq(bytes, n + 1, Len(bytes)))
         IN  IF ~wellFormed \/ ~rest.ok THEN [ok |-> FALSE, text |-> <<>>]
             ELSE [ok |-> TRUE, text |-> <<cp>> \o rest.text]

\* base64.b64encode
RECURSIVE B64Encode(_)
B64Encode(bytes) ==
    IF bytes = <<>> THEN <<>>
    ELSE IF Len(bytes) = 1
    THEN <<bytes[1] \div 4, (bytes[1] % 4) * 16, 64, 64>>
    ELSE IF Len(bytes) = 2
    THEN <<bytes[1] \div 4, (bytes[1] % 4) * 16 + (bytes[2] \div 16),
           (bytes[2] % 16) * 4, 64>>
    ELSE <<bytes[1] \div 4, (bytes[1] % 4) * 16 + (bytes[2] \div 16),
           (bytes[2] % 16) * 4 + (bytes[3] \div 64), bytes[3] % 64>>
         \o B64Encode(SubSeq(bytes, 4, Len(bytes)))

\* base64.b64decode: [ok, bytes]; binascii.Error when the padding is incorrect.
\* The bits of the last sextet that belong to no byte are ignored.
RECURSIVE B64Decode(_)
B64Decode(chars) ==
    IF chars = <<>> THEN [ok |-> TRUE, bytes |-> <<>>]
    ELSE IF Len(chars) < 4 \/ chars[1] = 64 \/ chars[2] = 64
    THEN [ok |-> FALSE, bytes |-> <<>>]
    ELSE LET b1 == chars[1] * 4 + (chars[2] \div 16)
             b2 == (chars[2] % 16) * 16 + (chars[3] \div 4)
             b3 == (chars[3] % 4) * 64 + chars[4]
             rest == B64Decode(SubSeq(chars, 5, Len(chars)))
         IN  IF chars[3] = 64
             THEN [ok |-> chars[4] = 64 /\ Len(chars) = 4, bytes |-> <<b1>>]
             ELSE IF chars[4] = 64
             THEN [ok |-> Len(chars) = 4, bytes |-> <<b1, b2>>]
             ELSE [ok |-> rest.ok, bytes |-> <<b1, b2, b3>> \o rest.bytes]

\* AESGCM(key): ValueError unless the key has 128, 192 or 256 bits
ValidKey(key) == Len(key) \in {16, 24, AES_KEY_SIZE}

\* AES in counter mode: byte i of the data combined with byte i of a keystream
\* that the key and the nonce determine
Keystream(key, nonce, i) == (key[1] + nonce[1] + nonce[Len(nonce)] + 17 * i) % 256
GcmCrypt(key, nonce, data, sign) ==
    [i \in 1..Len(data) |-> (data[i] + sign * Keystream(key, nonce, i)) % 256]

\* The GCM tag.  AES-GCM admits no forgery but with negligible probability;
\* the tag is modelled without forgeries, as 16 bytes under the key, each of
\* which depends on every byte of the nonce and of the ciphertext (of up to
\* 3 bytes), so that no change of a few bytes of the blob yields a blob whose
\* tag verifies.
GcmInput(nonce, ciphertext) ==
    [j \in 1..TAG_SIZE |->
        IF j <= NONCE_SIZE THEN (IF j <= Len(nonce) THEN nonce[j] ELSE 0)
        ELSE IF j = NONCE_SIZE + 1 THEN Len(nonce) + (16 * Len(ciphertext))
        ELSE IF j - NONCE_SIZE - 1 <= Len(ciphertext)
        THEN ciphertext[j - NONCE_SIZE - 1] ELSE 0]
RECURSIVE GcmMix(_, _, _)
GcmMix(input, weight, j) ==
    IF j = 0 THEN 0
    ELSE ((input[j] * (weight * j + (1 - weight))) + GcmMix(input, weight, j - 1)) % 256
GcmTag(key, nonce, ciphertext) ==
    LET input == GcmInput(nonce, ciphertext)
        plain == GcmMix(input, 0, TAG_SIZE)
        weighted == GcmMix(input, 1, TAG_SIZE)
    IN  [i \in 1..TAG_SIZE |->
            (key[i] + (i * plain) + weighted + input[i]) % 256]

\* aesgcm.encrypt(nonce, data, None): ciphertext || tag
AESGCM_encrypt(key, nonce, data) ==
    LET ciphertext == GcmCrypt(key, nonce, data, 1)
    IN  ciphertext \o GcmTag(key, nonce, ciphertext)

\* aesgcm.decrypt(nonce, data, None): "ValueError" for a nonce of fewer than 8
\* bytes, "InvalidTag" when the tag does not verify, else the plaintext bytes
TagVerifies_Always(tag, expected) == TRUE
TagVerifies(tag, expected) == tag = expected
AESGCM_decrypt(key, nonce, data) ==
    LET ciphertext == SubSeq(data, 1, Len(data) - TAG_SIZE)
        tag == SubSeq(data, Len(data) - TAG_SIZE + 1, Len(data))
    IN  IF Len(nonce) < 8 THEN [error |-> "ValueError", bytes |-> <<>>]
        ELSE IF Len(data) < TAG_SIZE
                \/ ~TagVerifies(tag, GcmTag(key, nonce, ciphertext))
        THEN [error |-> "InvalidTag", bytes |-> <<>>]
        ELSE [error |-> "", bytes |-> GcmCrypt(key, nonce, ciphertext, -1)]

\* what encrypt_content and decrypt_content return or raise; both raise
\* EncryptionError, with one of three messages
TagErrorMessage_Generic == "Failed to decrypt content"
TagErrorMessage == "Authentication tag verification failed. Data may have been tampered with."
Returned(value) ==
    [ok |-> TRUE, value |-> value, raised |-> "", message |-> ""]
Raised(message) ==
    [ok |-> FALSE, value |-> <<>>, raised |-> "EncryptionError", message |-> message]

\* encrypt_content(plaintext, master_key) with nonce = os.urandom(12)
encrypt_content_KeyOut(plaintext, master_key, nonce) == Returned(B64Encode(master_key))
encrypt_content(plaintext, master_key, nonce) ==
    IF ~ValidKey(master_key) THEN Raised("Failed to encrypt content")
    ELSE Returned(B64Encode(nonce \o AESGCM_encrypt(master_key, nonce,
                                                     Utf8Encode(plaintext))))

\* decrypt_content(encrypted_b64, master_key)
NonceOf(encrypted) ==
    IF Len(encrypted) <= NONCE_SIZE THEN encrypted ELSE SubSeq(encrypted, 1, NONCE_SIZE)
CiphertextOf_Whole(encrypted) == encrypted
CiphertextOf(encrypted) ==
    IF Len(encrypted) <= NONCE_SIZE THEN <<>>
    ELSE SubSeq(encrypted, NONCE_SIZE + 1, Len(encrypted))
decrypt_content(encrypted_b64, master_key) ==
    LET decoded == B64Decode(encrypted_b64)
        encrypted == decoded.bytes
        opened == AESGCM_decrypt(master_key, NonceOf(encrypted), CiphertextOf(encrypted))
        text == Utf8Decode(opened.bytes)
    IN  IF ~decoded.ok \/ ~ValidKey(master_key) THEN Raised("Failed to decrypt content")
        ELSE IF opened.error = "InvalidTag" THEN Raised(TagErrorMessage)
        ELSE IF opened.error # "" \/ ~text.ok THEN Raised("Failed to decrypt content")
        ELSE Returned(text.text)

\* SpecCrypto: a plaintext is encrypted under a key, the blob is modified or
\* cut short on its way through the database, and decrypted under some key

MaxEdits == 1
Plaintexts == {<<>>, <<97>>, <<233>>, <<8364>>, <<97, 98>>, <<97, 233>>}
\* two keys of AES_KEY_SIZE bytes and one of no AES length
MasterKeys == {[i \in 1..AES_KEY_SIZE |-> 1], [i \in 1..AES_KEY_SIZE |-> 2], <<1, 2, 3>>}
Nonces == {[i \in 1..NONCE_SIZE |-> 0], [i \in 1..NONCE_SIZE |-> 20 * i]}

PartOf(i, n) ==
    IF i <= NONCE_SIZE THEN "nonce" ELSE IF i > n - TAG_SIZE THEN "tag" ELSE "ciphertext"

cryptoFrame == <<now, ticks, storeVars, req, last, issued, logins, loggedOut, raceVars,
                 concurrent, revoked, jwt, vaultVars, held>>

EncryptContent ==
    /\ aead.produced = None
    /\ \E nonce \in Nonces :
          LET outcome == encrypt_content(aead.plaintext, aead.key, nonce)
          IN  aead' = [aead EXCEPT !.produced = Some(outcome),
                                   !.blob = IF outcome.ok THEN Some(outcome.value)
                                            ELSE None]
    /\ UNCHANGED cryptoFrame

\* one byte of the stored blob is changed
Tamper ==
    /\ aead.blob # None /\ aead.edits < MaxEdits
    /\ B64Decode(aead.blob[1]).ok
    /\ LET bytes == B64Decode(aead.blob[1]).bytes
       IN  \E i \in 1..Len(bytes), d \in {1, 128} :
              aead' = [aead EXCEPT
                         !.blob = Some(B64Encode([bytes EXCEPT ![i] = (@ + d) % 256])),
                         !.touched = @ \cup {PartOf(i, Len(bytes))},
                         !.edits = @ + 1]
    /\ UNCHANGED cryptoFrame

\* the stored blob loses its last characters
Truncate ==
    /\ aead.blob # None /\ aead.edits < MaxEdits
    /\ \E k \in {1, 4} :
          /\ k <= Len(aead.blob[1])
          /\ aead' = [aead EXCEPT
                        !.blob = Some(SubSeq(aead.blob[1], 1, Len(aead.blob[1]) - k)),
                        !.touched = @ \cup {"length"},
                        !.edits = @ + 1]
    /\ UNCHANGED cryptoFrame

\* one of the last characters of the stored text is changed to the next
\* character of the base64 alphabet
Recode ==
    /\ aead.blob # None /\ aead.edits < MaxEdits
    /\ \E i \in 1..Len(aead.blob[1]) :
          /\ i > Len(aead.blob[1]) - 4 /\ aead.blob[1][i] # 64
          /\ aead' = [aead EXCEPT
                        !.blob = Some([aead.blob[1] EXCEPT ![i] = (@ + 1) % 64]),
                        !.touched = @ \cup {"encoding"},
                        !.edits = @ + 1]
    /\ UNCHANGED cryptoFrame

DecryptContent ==
    /\ aead.blob # None
    /\ \E master_key \in MasterKeys :
          aead' = [aead EXCEPT
                     !.before = aead.result,
                     !.result = Some([blob |-> aead.blob[1], key |-> master_key,
                                      outcome |-> decrypt_content(aead.blob[1],
                                                                  master_key)])]
    /\ UNCHANGED cryptoFrame

InitCrypto ==
    /\ InitFlows
    /\ jwt = NoJwt
    /\ NoVault
    /\ \E plaintext \in Plaintexts, master_key \in MasterKeys :
          aead = [NoAead EXCEPT !.plaintext = plaintext, !.key = master_key]

NextCrypto ==
    \/ EncryptContent
    \/ Tamper
    \/ Truncate
    \/ Recode
    \/ DecryptContent

SpecCrypto == InitCrypto /\ [][NextCrypto]_vars

----------------------------------------------------------------------------
(* api/vault.py and services/vault.py.  The rows of vault_items and tags are
   records, the association table vault_item_tags is a set of pairs
   <<vault_item_id, tag_id>>; a title is a sequence of code points, a hex
   string a sequence of hex digits 0..15. *)

MaxItems == 2
MaxTags == 2
MaxCommits == 2
MaxAuthCommits == 1

\* bytes.fromhex(user.encryption_salt): ValueError for an odd number of digits
fromhex(hex) ==
    IF Len(hex) % 2 = 1 THEN [ok |-> FALSE, bytes |-> <<>>]
    ELSE [ok |-> TRUE,
          bytes |-> [i \in 1..(Len(hex) \div 2) |-> (16 * hex[(2 * i) - 1]) + hex[2 * i]]]

\* derive_master_key: PBKDF2-HMAC-SHA256 of the password google_id +
\* APP_SECRET_KEY under the salt, AES_KEY_SIZE bytes.  PBKDF2HMAC takes a salt
\* of any length; every byte of the key depends on the password, on every byte
\* of the salt and on the length of the salt.
derive_master_key_PerRequest(google_id, encryption_salt) ==
    Returned([i \in 1..AES_KEY_SIZE |->
                 (db.commits + i + Len(encryption_salt)) % 256])
derive_master_key(google_id, encryption_salt) ==
    LET password == IF google_id = "g1" THEN 71 ELSE 113
        RECURSIVE Mix(_, _)
        Mix(weight, j) ==
            IF j = 0 THEN 0
            ELSE ((encryption_salt[j] * (weight * j + (1 - weight)))
                  + Mix(weight, j - 1)) % 256
        plain == Mix(0, Len(encryption_salt))
        weighted == Mix(1, Len(encryption_salt))
    IN  Returned([i \in 1..AES_KEY_SIZE |->
                     (password + (7 * i) + (13 * Len(encryption_salt))
                      + (i * plain) + weighted) % 256])

\* get_current_user of api/vault.py against the users table d_users: its
\* answer, and with a 200 the id of the user and the master key derived from
\* the row's google_id and encryption_salt
CurrentUser(authorization, access_token, d_users, t) ==
    LET known == "user_id" \in DOMAIN access_token
                    /\ access_token.user_id \in DOMAIN d_users
        user == d_users[access_token.user_id]
        salt == fromhex(user.encryption_salt)
        answer == vault_get_current_user(
                      authorization, access_token,
                      IF known THEN Some([google_id |-> user.google_id,
                                          salt_is_hex |-> salt.ok])
                      ELSE None, t)
    IN  [presented |-> [authorization |-> authorization, token |-> access_token],
         answer |-> answer,
         user_id |-> IF answer.status = 200 THEN access_token.user_id ELSE <<>>,
         master_key |-> IF answer.status = 200
                        THEN derive_master_key(user.google_id, salt.bytes).value
                        ELSE <<>>]

\* json.dumps and json.loads of the metadata dicts {} and {"a": 1}
json_dumps(metadata) ==
    IF metadata = EmptyDict THEN <<123, 125>>
    ELSE <<123, 34, 97, 34, 58, 32, 49, 125>>
json_loads(text) ==
    IF text = <<123, 125>> THEN [ok |-> TRUE, value |-> EmptyDict]
    ELSE IF text = <<123, 34, 97, 34, 58, 32, 49, 125>>
    THEN [ok |-> TRUE, value |-> [a \in {"a"} |-> 1]]
    ELSE [ok |-> FALSE, value |-> EmptyDict]

\* os.urandom(12) of the encryption number k of a request: a nonce no other
\* encryption uses
FreshNonce(d, k) == [i \in 1..NONCE_SIZE |-> (2 * d.commits) + k]

\* raise Exception(message)
Failed(message) == [Raised(message) EXCEPT !.raised = "Exception"]

\* VaultItem.title.ilike(f"%{search_title}%"): case-insensitive LIKE, in which
\* % stands for any characters and _ for any one character
RECURSIVE Like(_, _)
Like(text, pattern) ==
    IF pattern = <<>> THEN text = <<>>
    ELSE IF pattern[1] = 37
    THEN \E k \in 0..Len(text) : Like(SubSeq(text, k + 1, Len(text)), Tail(pattern))
    ELSE /\ text # <<>>
         /\ pattern[1] = 95 \/ pattern[1] = text[1]
         /\ Like(Tail(text), Tail(pattern))
ilike(title, search_title) ==
    LET lower(str) == [i \in 1..Len(str) |->
                          IF str[i] \in 65..90 THEN str[i] + 32 ELSE str[i]]
    IN  Like(lower(title), <<37>> \o lower(search_title) \o <<37>>)

\* VaultService._add_tags_to_item: get or create each tag of the user by name
\* and attach it to the item
RECURSIVE add_tags_to_item(_, _, _, _)
add_tags_to_item(d, user_id, item_id, tag_names) ==
    IF tag_names = <<>> THEN d
    ELSE LET tag_name == Head(tag_names)
             found == {id \in DOMAIN d.tags : d.tags[id].user_id = user_id
                                               /\ d.tags[id].name = tag_name}
             tag_id == IF found = {} THEN d.next_tag ELSE CHOOSE id \in found : TRUE
             tag == [id |-> tag_id, user_id |-> user_id, name |-> tag_name,
                     color |-> None, created_at |-> d.commits]
             added == [d EXCEPT
                         !.tags = IF found = {} THEN DictSet(d.tags, tag_id, tag) ELSE @,
                         !.next_tag = IF found = {} THEN @ + 1 ELSE @,
                         !.vault_item_tags = @ \cup {<<item_id, tag_id>>}]
         IN  add_tags_to_item(added, user_id, item_id, Tail(tag_names))

\* VaultService._vault_item_to_response
vault_item_to_response(d, vault_item, master_key) ==
    LET content == decrypt_content(vault_item.content_encrypted, master_key)
        encrypted == vault_item.metadata_encrypted
        metadata_json == decrypt_content(encrypted[1], master_key)
        metadata == json_loads(metadata_json.value)
    IN  IF ~content.ok
        THEN Failed(IF content.message = TagErrorMessage
                    THEN "Failed to decrypt vault item: Authentication tag verification failed. Data may have been tampered with."
                    ELSE "Failed to decrypt vault item: Failed to decrypt content")
        ELSE IF encrypted # None /\ (~metadata_json.ok \/ ~metadata.ok)
        THEN Failed("Failed to decrypt metadata")
        ELSE Returned(
                 [id |-> vault_item.id, type |-> vault_item.type,
                  title |-> vault_item.title, content |-> content.value,
                  metadata |-> IF encrypted = None THEN None ELSE Some(metadata.value),
                  tags |-> {d.tags[p[2]].name :
                               p \in {q \in d.vault_item_tags : q[1] = vault_item.id}},
                  source |-> vault_item.source, source_id |-> vault_item.source_id,
                  created_at |-> vault_item.created_at,
                  updated_at |-> vault_item.updated_at])

\* A commit that changed a row advances the clock of the database server,
\* which stamps created_at and updated_at
Commit(d, changed) == IF changed = d THEN d ELSE [changed EXCEPT !.commits = @ + 1]

\* the filter of get_item, update_item and delete_item: the item of that id,
\* of that user, not soft-deleted
FindItem_AnyOwner(d, user_id, item_id) ==
    /\ item_id \in 1..Len(d.vault_items)
    /\ d.vault_items[item_id].deleted_at = None
FindItem(d, user_id, item_id) ==
    /\ item_id \in 1..Len(d.vault_items)
    /\ d.vault_items[item_id].user_id = user_id
    /\ d.vault_items[item_id].deleted_at = None

\* VaultService.create_item
create_item(d, user_id, master_key, item_data) ==
    LET encrypted_content ==
            encrypt_content(item_data.content, master_key, FreshNonce(d, 0))
        with_metadata == item_data.metadata # None /\ item_data.metadata[1] # EmptyDict
        encrypted_metadata ==
            encrypt_content(json_dumps(item_data.metadata[1]), master_key,
                            FreshNonce(d, 1))
        vault_item ==
            [id |-> Len(d.vault_items) + 1, user_id |-> user_id,
             type |-> item_data.type, title |-> item_data.title,
             content_encrypted |-> encrypted_content.value,
             metadata_encrypted |-> IF with_metadata
                                    THEN Some(encrypted_metadata.value) ELSE None,
             source |-> item_data.source, source_id |-> item_data.source_id,
             created_at |-> d.commits, updated_at |-> d.commits,
             deleted_at |-> None]
        added == [d EXCEPT !.vault_items = Append(@, vault_item)]
        tagged == IF item_data.tags # None /\ item_data.tags[1] # <<>>
                  THEN add_tags_to_item(added, user_id, vault_item.id, item_data.tags[1])
                  ELSE added
        committed == Commit(d, tagged)
    IN  IF ~encrypted_content.ok
        THEN [db |-> d, result |-> Failed("Failed to encrypt vault item")]
        ELSE IF with_metadata /\ ~encrypted_metadata.ok
        THEN [db |-> d, result |-> Failed("Failed to encrypt metadata")]
        ELSE [db |-> committed,
              result |-> vault_item_to_response(committed, vault_item, master_key)]

\* VaultService.get_item: None, or the decrypted item
get_item(d, user_id, master_key, item_id) ==
    LET response == vault_item_to_response(d, d.vault_items[item_id], master_key)
    IN  [db |-> d,
         result |-> IF ~FindItem(d, user_id, item_id) THEN Returned(None)
                    ELSE IF response.ok THEN Returned(Some(response.value))
                    ELSE response]

\* VaultService.list_items
list_items(d, user_id, master_key, page, page_size, item_type, source, tag_names, search_title) ==
    LET tags == {id \in DOMAIN d.tags :
                    /\ d.tags[id].user_id = user_id
                    /\ \E k \in 1..Len(tag_names[1]) : d.tags[id].name = tag_names[1][k]}
        query ==
            {i \in 1..Len(d.vault_items) :
                LET vault_item == d.vault_items[i]
                IN  /\ vault_item.user_id = user_id
                    /\ vault_item.deleted_at = None
                    /\ item_type # None => vault_item.type = item_type[1]
                    /\ source # None => vault_item.source = source[1]
                    /\ search_title # None /\ search_title[1] # <<>>
                          => ilike(vault_item.title, search_title[1])
                    /\ tag_names # None /\ tag_names[1] # <<>> /\ tags # {}
                          => \E id \in tags : <<i, id>> \in d.vault_item_tags}
        RECURSIVE order_by_created_at_desc(_)
        order_by_created_at_desc(rows) ==
            IF rows = {} THEN <<>>
            ELSE LET newest == CHOOSE i \in rows : \A j \in rows :
                                   d.vault_items[j].created_at
                                       <= d.vault_items[i].created_at
                 IN  <<newest>> \o order_by_created_at_desc(rows \ {newest})
        total == Cardinality(query)
        offset == (page - 1) * page_size
        items == IF offset >= total THEN <<>>
                 ELSE SubSeq(order_by_created_at_desc(query), offset + 1,
                             IF offset + page_size < total THEN offset + page_size
                             ELSE total)
        decrypted_items ==
            [k \in 1..Len(items) |->
                vault_item_to_response(d, d.vault_items[items[k]], master_key)]
    IN  [db |-> d,
         result |->
            IF \E k \in 1..Len(items) : ~decrypted_items[k].ok
            THEN decrypted_items[CHOOSE k \in 1..Len(items) :
                                    /\ ~decrypted_items[k].ok
                                    /\ \A j \in 1..(k - 1) : decrypted_items[j].ok]
            ELSE Returned([items |-> [k \in 1..Len(items) |-> decrypted_items[k].value],
                           total |-> total, page |-> page, page_size |-> page_size,
                           has_more |-> (offset + page_size) < total])]

\* VaultService.update_item: None, or the updated item
update_item_MergeTags(d, user_id, master_key, item_id, update_data) ==
    LET tagged == IF update_data.tags # None
                  THEN add_tags_to_item(d, user_id, item_id, update_data.tags[1])
                  ELSE d
    IN  IF ~FindItem(d, user_id, item_id) THEN [db |-> d, result |-> Returned(None)]
        ELSE [db |-> Commit(d, tagged),
              result |-> Returned(Some(vault_item_to_response(
                                           tagged, d.vault_items[item_id],
                                           master_key).value))]
update_item(d, user_id, master_key, item_id, update_data) ==
    LET vault_item == d.vault_items[item_id]
        encrypted_content ==
            encrypt_content(update_data.content[1], master_key, FreshNonce(d, 0))
        encrypted_metadata ==
            encrypt_content(json_dumps(update_data.metadata[1]), master_key,
                            FreshNonce(d, 1))
        assigned ==
            [vault_item EXCEPT
                !.title = IF update_data.title # None THEN update_data.title[1] ELSE @,
                !.type = IF update_data.type # None THEN update_data.type[1] ELSE @,
                !.content_encrypted = IF update_data.content # None
                                      THEN encrypted_content.value ELSE @,
                !.metadata_encrypted = IF update_data.metadata # None
                                       THEN Some(encrypted_metadata.value) ELSE @]
        updated == IF assigned = vault_item THEN vault_item
                   ELSE [assigned EXCEPT !.updated_at = d.commits]
        stored == [d EXCEPT !.vault_items[item_id] = updated]
        cleared == [stored EXCEPT !.vault_item_tags = {p \in @ : p[1] # item_id}]
        tagged == IF update_data.tags # None
                  THEN add_tags_to_item(cleared, user_id, item_id, update_data.tags[1])
                  ELSE stored
        committed == Commit(d, tagged)
        response == vault_item_to_response(committed, updated, master_key)
    IN  IF ~FindItem(d, user_id, item_id) THEN [db |-> d, result |-> Returned(None)]
        ELSE IF update_data.content # None /\ ~encrypted_content.ok
        THEN [db |-> d, result |-> Failed("Failed to encrypt vault item")]
        ELSE IF update_data.metadata # None /\ ~encrypted_metadata.ok
        THEN [db |-> d, result |-> Failed("Failed to encrypt metadata")]
        ELSE [db |-> committed,
              result |-> IF response.ok THEN Returned(Some(response.value))
                         ELSE response]

\* VaultService.delete_item: None, or the deletion timestamp
delete_item_Again(d, user_id, item_id, t) ==
    IF ~(item_id \in 1..Len(d.vault_items) /\ d.vault_items[item_id].user_id = user_id)
    THEN [db |-> d, result |-> Returned(None)]
    ELSE IF d.vault_items[item_id].deleted_at # None
    THEN [db |-> d, result |-> Returned(d.vault_items[item_id].deleted_at)]
    ELSE [db |-> Commit(d, [d EXCEPT !.vault_items[item_id].deleted_at = Some(t),
                                     !.vault_items[item_id].updated_at = d.commits]),
          result |-> Returned(Some(t))]
delete_item_Noop(d, user_id, item_id, t) ==
    [db |-> d, result |-> Returned(IF FindItem(d, user_id, item_id) THEN Some(t) ELSE None)]
delete_item(d, user_id, item_id, t) ==
    IF ~FindItem(d, user_id, item_id) THEN [db |-> d, result |-> Returned(None)]
    ELSE [db |-> Commit(d, [d EXCEPT !.vault_items[item_id].deleted_at = Some(t),
                                     !.vault_items[item_id].updated_at = d.commits]),
          result |-> Returned(Some(t))]

\* TagResponse.from_orm(tag)
TagResponse(tag) ==
    [id |-> tag.id, name |-> tag.name, color |-> tag.color, created_at |-> tag.created_at]

\* TagService.create_tag
create_tag_Unchecked(d, user_id, tag_data) ==
    LET tag == [id |-> d.next_tag, user_id |-> user_id, name |-> tag_data.name,
                color |-> tag_data.color, created_at |-> d.commits]
    IN  [db |-> Commit(d, [d EXCEPT !.tags = DictSet(@, tag.id, tag),
                                    !.next_tag = @ + 1]),
         result |-> Returned(TagResponse(tag))]
create_tag(d, user_id, tag_data) ==
    LET existing == {id \in DOMAIN d.tags : d.tags[id].user_id = user_id
                                              /\ d.tags[id].name = tag_data.name}
        tag == [id |-> d.next_tag, user_id |-> user_id, name |-> tag_data.name,
                color |-> tag_data.color, created_at |-> d.commits]
    IN  IF existing # {} THEN [db |-> d, result |-> Failed("Tag already exists")]
        ELSE [db |-> Commit(d, [d EXCEPT !.tags = DictSet(@, tag.id, tag),
                                         !.next_tag = @ + 1]),
              result |-> Returned(TagResponse(tag))]

\* TagService.get_tag: None, or the tag
get_tag(d, user_id, tag_id) ==
    [db |-> d,
     result |-> IF tag_id \in DOMAIN d.tags /\ d.tags[tag_id].user_id = user_id
                THEN Returned(Some(TagResponse(d.tags[tag_id])))
                ELSE Returned(None)]

\* TagService.list_tags: the tags of the user (their order by name is left out)
list_tags(d, user_id) ==
    [db |-> d,
     result |-> Returned({TagResponse(d.tags[id]) :
                             id \in {x \in DOMAIN d.tags : d.tags[x].user_id = user_id}})]

\* TagService.update_tag: None, or the updated tag
update_tag(d, user_id, tag_id, update_data) ==
    LET renamed == update_data.name # None /\ update_data.name[1] # ""
        existing == {id \in DOMAIN d.tags : /\ d.tags[id].user_id = user_id
                                             /\ d.tags[id].name = update_data.name[1]
                                             /\ id # tag_id}
        tag == [d.tags[tag_id] EXCEPT
                   !.name = IF renamed THEN update_data.name[1] ELSE @,
                   !.color = IF update_data.color # None THEN update_data.color ELSE @]
    IN  IF ~(tag_id \in DOMAIN d.tags /\ d.tags[tag_id].user_id = user_id)
        THEN [db |-> d, result |-> Returned(None)]
        ELSE IF renamed /\ existing # {}
        THEN [db |-> d, result |-> Failed("Tag already exists")]
        ELSE [db |-> Commit(d, [d EXCEPT !.tags[tag_id] = tag]),
              result |-> Returned(Some(TagResponse(tag)))]

\* TagService.delete_tag: whether the tag was deleted; its rows of
\* vault_item_tags go with it
delete_tag(d, user_id, tag_id) ==
    IF ~(tag_id \in DOMAIN d.tags /\ d.tags[tag_id].user_id = user_id)
    THEN [db |-> d, result |-> Returned(FALSE)]
    ELSE [db |-> Commit(d, [d EXCEPT !.tags = DictDel(@, tag_id),
                                     !.vault_item_tags = {p \in @ : p[2] # tag_id}]),
          result |-> Returned(TRUE)]

\* SpecVault: two users of the database call the vault and tag routes

vaultFrame == <<now, ticks, storeVars, req, last, issued, logins, loggedOut, raceVars,
                concurrent, revoked, jwt, aead, held>>

\* the Authorization value of a request: the access token of a user, and,
\* where other tokens are around (jwt.token), no value, a value that is not a
\* Bearer credential, and each of those tokens as a Bearer credential
Credentials ==
    LET own == {[authorization |-> Some("Bearer"),
                 token |-> create_access_token(UserId(n), "a@x.org", 0)] : n \in 1..2}
    IN  own
        \cup {[authorization |-> Some("Bearer"), token |-> jwt.token[k]] :
                 k \in 1..Len(jwt.token)}
        \cup IF jwt.token = None THEN {}
             ELSE {[c EXCEPT !.authorization = a] : c \in own, a \in {None, Some("Basic")}}

\* Depends(get_db): the routes hand the AsyncSession of get_db to the
\* services, which are written against sqlalchemy.orm.Session and call
\* db.query, which an AsyncSession does not have; a Session is what the
\* services get where the dependency is overridden.  db.session is the class
\* of the session of a deployment.
SessionClasses == {"Session", "AsyncSession"}
NoQuery == Failed("'AsyncSession' object has no attribute 'query'")

\* A route: get_current_user, then the service call, then the answer.  served
\* is what the service call returns and leaves in the database, answer the
\* answer of the route to it.  vault becomes the operation with the request:
\* its arguments, the user and key of get_current_user, the outcome of the
\* service call (its value as an Optional) and the answer.
Serve(op, args, current, served, answer, wrote) ==
    LET authenticated == current.answer.status = 200
        done == authenticated /\ db.session = "Session"
        outcome == IF done THEN served.result ELSE NoQuery
    IN  /\ done => /\ served.db.commits
                         <= IF jwt.token = None THEN MaxCommits ELSE MaxAuthCommits
                   /\ Len(served.db.vault_items) <= MaxItems
                   /\ served.db.next_tag <= MaxTags + 1
        /\ db' = IF done THEN served.db ELSE db
        /\ vault' = <<op, [args |-> args,
                           presented |-> current.presented,
                           user_id |-> current.user_id,
                           master_key |-> current.master_key,
                           result |-> IF ~authenticated THEN None
                                      ELSE Some([outcome EXCEPT
                                                    !.value = IF outcome.ok
                                                              THEN Some(@) ELSE None]),
                           answer |-> IF authenticated THEN answer
                                      ELSE current.answer]>>
        /\ written' = IF done THEN wrote ELSE written
        /\ UNCHANGED vaultFrame

\* what a route makes of the outcome of its service call
Outcome(served) == IF db.session = "Session" THEN served.result ELSE NoQuery

\* POST /api/vault/items
create_vault_item ==
    \E credential \in Credentials :
    \E current \in {CurrentUser(credential.authorization, credential.token,
                             db.users, now)} :
    \E item_data \in {[type |-> "note", title |-> <<68, 114>>, content |-> <<97>>,
       tags |-> Some(<<"health">>), metadata |-> None,
       source |-> "manual", source_id |-> None],
       [type |-> "file", title |-> <<109, 101, 109, 111>>,
       content |-> <<98>>, tags |-> Some(<<"work">>),
       metadata |-> Some([a \in {"a"} |-> 1]),
       source |-> "epic", source_id |-> Some("e1")]} :
    \E served \in {create_item(db, current.user_id, current.master_key, item_data)} :
    \E result \in {Outcome(served)} :
        Serve("create_item", item_data, current, served,
                  IF result.ok THEN Answer(201, "", Some(result.value))
                  ELSE IF result.raised = "EncryptionError"
                  THEN Answer(500, "Encryption failed", None)
                  ELSE Answer(400, result.message, None),
                  IF served.result.ok
                  THEN DictSet(written, served.result.value.id, item_data.content)
                  ELSE written)

\* GET /api/vault/items/{item_id}: the HTTPException of a missing item is
\* raised inside the try and caught by its except Exception
get_vault_item ==
    \E credential \in Credentials :
    \E current \in {CurrentUser(credential.authorization, credential.token,
                             db.users, now)} :
    \E item_id \in 1..MaxItems :
    \E served \in {get_item(db, current.user_id, current.master_key, item_id)} :
    \E result \in {Outcome(served)} :
        Serve("get_item", item_id, current, served,
                  IF result.ok /\ result.value # None
                  THEN Answer(200, "", result.value)
                  ELSE IF result.ok THEN Answer(500, "404: Vault item not found", None)
                  ELSE IF result.raised = "EncryptionError"
                  THEN Answer(500, "Decryption failed", None)
                  ELSE Answer(500, result.message, None),
                  written)

\* GET /api/vault/items
list_vault_items ==
    \E credential \in Credentials :
    \E current \in {CurrentUser(credential.authorization, credential.token,
                             db.users, now)} :
    \E query \in {[page |-> 1, page_size |-> 1, type |-> None, source |-> None,
       tags |-> None, search |-> None],
       [page |-> 2, page_size |-> 1, type |-> None, source |-> None,
       tags |-> None, search |-> None],
       [page |-> 1, page_size |-> 2, type |-> None, source |-> None,
       tags |-> None, search |-> None],
       [page |-> 1, page_size |-> 2, type |-> None, source |-> None,
       tags |-> Some(<<"health", "other">>), search |-> None],
       [page |-> 1, page_size |-> 2, type |-> None, source |-> None,
       tags |-> Some(<<"other">>), search |-> None],
       [page |-> 1, page_size |-> 2, type |-> None, source |-> None,
       tags |-> None, search |-> Some(<<100, 114>>)],
       [page |-> 1, page_size |-> 2, type |-> Some("file"),
       source |-> Some("epic"), tags |-> None, search |-> None]} :
    \E served \in {list_items(db, current.user_id, current.master_key,
                        query.page, query.page_size, query.type,
                        query.source, query.tags, query.search)} :
    \E result \in {Outcome(served)} :
        Serve("list_items", query, current, served,
                  IF result.ok THEN Answer(200, "", Some(result.value))
                  ELSE IF result.raised = "EncryptionError"
                  THEN Answer(500, "Decryption failed", None)
                  ELSE Answer(400, result.message, None),
                  written)

\* PATCH /api/vault/items/{item_id}
update_vault_item ==
    \E credential \in Credentials :
    \E current \in {CurrentUser(credential.authorization, credential.token,
                             db.users, now)} :
    \E item_id \in 1..MaxItems,
       changed \in {{}, {"title"}, {"content"}, {"type"}, {"metadata"}, {"tags"}} :
    \E tags \in IF "tags" \in changed THEN {<<>>, <<"work">>} ELSE {<<>>} :
    LET update_data ==
                [title |-> IF "title" \in changed THEN Some(<<88>>) ELSE None,
                 content |-> IF "content" \in changed THEN Some(<<99>>) ELSE None,
                 type |-> IF "type" \in changed THEN Some("other") ELSE None,
                 tags |-> IF "tags" \in changed THEN Some(tags) ELSE None,
                 metadata |-> IF "metadata" \in changed THEN Some(EmptyDict) ELSE None]
    IN
    \E served \in {update_item(db, current.user_id, current.master_key, item_id,
                        update_data)} :
    \E result \in {Outcome(served)} :
        Serve("update_item", [item_id |-> item_id, update_data |-> update_data],
                     current, served,
                     IF result.ok /\ result.value # None
                     THEN Answer(200, "", result.value)
                     ELSE IF result.ok
                     THEN Answer(400, "404: Vault item not found", None)
                     ELSE IF result.raised = "EncryptionError"
                     THEN Answer(500, "Encryption failed", None)
                     ELSE Answer(400, result.message, None),
                     IF served.result.ok /\ served.result.value # None
                        /\ "content" \in changed
                     THEN DictSet(written, item_id, update_data.content[1])
                     ELSE written)

\* DELETE /api/vault/items/{item_id}
delete_vault_item ==
    \E credential \in Credentials :
    \E current \in {CurrentUser(credential.authorization, credential.token,
                             db.users, now)} :
    \E item_id \in 1..MaxItems :
    \E served \in {delete_item(db, current.user_id, item_id, now)} :
    \E result \in {Outcome(served)} :
        Serve("delete_item", item_id, current, served,
                  IF result.ok /\ result.value # None
                  THEN Answer(200, "", Some([id |-> item_id,
                                             deleted_at |-> result.value[1]]))
                  ELSE IF result.ok
                  THEN Answer(400, "404: Vault item not found", None)
                  ELSE Answer(400, result.message, None),
                  written)

\* POST /api/vault/tags
post_tag ==
    \E credential \in Credentials :
    \E current \in {CurrentUser(credential.authorization, credential.token,
                             db.users, now)} :
    \E name \in {"health", "other"} :
    LET tag_data == [name |-> name, color |-> None]
    IN
    \E served \in {create_tag(db, current.user_id, tag_data)} :
    \E result \in {Outcome(served)} :
        Serve("create_tag", tag_data, current, served,
                  IF result.ok THEN Answer(201, "", Some(result.value))
                  ELSE IF result.message = "Tag already exists"
                  THEN Answer(409, result.message, None)
                  ELSE Answer(400, result.message, None),
                  written)

\* GET /api/vault/tags/{tag_id}
get_tag_by_id ==
    \E credential \in Credentials :
    \E current \in {CurrentUser(credential.authorization, credential.token,
                             db.users, now)} :
    \E tag_id \in 1..MaxTags :
    \E served \in {get_tag(db, current.user_id, tag_id)} :
    \E result \in {Outcome(served)} :
        Serve("get_tag", tag_id, current, served,
                  IF result.ok /\ result.value # None
                  THEN Answer(200, "", result.value)
                  ELSE IF result.ok THEN Answer(404, "Tag not found", None)
                  ELSE Answer(400, result.message, None),
                  written)

\* GET /api/vault/tags
get_tags ==
    \E credential \in Credentials :
    \E current \in {CurrentUser(credential.authorization, credential.token,
                             db.users, now)} :
    \E served \in {list_tags(db, current.user_id)} :
    \E result \in {Outcome(served)} :
        Serve("list_tags", <<>>, current, served,
                  IF result.ok THEN Answer(200, "", Some(result.value))
                  ELSE Answer(400, result.message, None),
                  written)

\* PATCH /api/vault/tags/{tag_id}: the HTTPException of a missing tag is
\* caught by the except Exception of the route
patch_tag ==
    \E credential \in Credentials :
    \E current \in {CurrentUser(credential.authorization, credential.token,
                             db.users, now)} :
    \E tag_id \in 1..MaxTags,
       update_data \in {[name |-> Some("health"), color |-> None],
       [name |-> Some("work"), color |-> None],
       [name |-> None, color |-> Some("#FF5733")]} :
    \E served \in {update_tag(db, current.user_id, tag_id, update_data)} :
    \E result \in {Outcome(served)} :
        Serve("update_tag", [tag_id |-> tag_id, update_data |-> update_data], current, served,
                  IF result.ok /\ result.value # None
                  THEN Answer(200, "", result.value)
                  ELSE IF result.ok THEN Answer(400, "404: Tag not found", None)
                  ELSE IF result.message = "Tag already exists"
                  THEN Answer(409, result.message, None)
                  ELSE Answer(400, result.message, None),
                  written)

\* DELETE /api/vault/tags/{tag_id}
delete_tag_by_id ==
    \E credential \in Credentials :
    \E current \in {CurrentUser(credential.authorization, credential.token,
                             db.users, now)} :
    \E tag_id \in 1..MaxTags :
    \E served \in {delete_tag(db, current.user_id, tag_id)} :
    \E result \in {Outcome(served)} :
        Serve("delete_tag", tag_id, current, served,
                  IF result.ok /\ result.value THEN Answer(204, "", None)
                  ELSE IF result.ok THEN Answer(404, "Tag not found", None)
                  ELSE Answer(400, result.message, None),
                  written)

\* the users table holds the rows of the two users; the salt of the second
\* is 32 bytes in hex, empty, or a hex string that bytes.fromhex rejects
InitVault ==
    /\ InitFlows
    /\ jwt = NoJwt
    /\ aead = NoAead
    /\ vault = None
    /\ written = EmptyDict
    /\ \E session \in SessionClasses,
          salt \in {[i \in 1..(2 * AES_KEY_SIZE) |-> (3 * i) % 16], <<>>, <<1>>} :
          db = [EmptyDb EXCEPT
                  !.session = session,
                  !.users = [id \in {UserId(1), UserId(2)} |->
                                IF id = UserId(1)
                                THEN [google_id |-> "g1",
                                      encryption_salt |->
                                          [i \in 1..(2 * AES_KEY_SIZE) |-> i % 16]]
                                ELSE [google_id |-> "g2", encryption_salt |-> salt]]]

NextVault ==
    \/ create_vault_item
    \/ get_vault_item
    \/ list_vault_items
    \/ update_vault_item
    \/ delete_vault_item
    \/ post_tag
    \/ get_tag_by_id
    \/ get_tags
    \/ patch_tag
    \/ delete_tag_by_id

SpecVault == InitVault /\ [][NextVault]_vars

\* SpecVaultAuth: the routes with clients that also present no credential, a
\* Basic credential, and tokens that create_access_token did not issue to a
\* user of the database at this time: one signed with another key, one that
\* has expired, one of a user without a row, one without user_id
InitVaultAuth ==
    /\ InitFlows
    /\ aead = NoAead
    /\ vault = None
    /\ written = EmptyDict
    /\ jwt = [NoJwt EXCEPT
                !.token =
                   <<[create_access_token(UserId(1), "a@x.org", 0) EXCEPT !.key = "other"],
                     create_access_token(UserId(1), "a@x.org",
                                         0 - (ACCESS_TOKEN_EXPIRE_MINUTES * 60) - 1),
                     create_access_token(UserId(3), "c@x.org", 0),
                     [email |-> "a@x.org", exp |-> ACCESS_TOKEN_EXPIRE_MINUTES * 60,
                      iat |-> 0, key |-> "JWT_SECRET_KEY"]>>]
    /\ db = [EmptyDb EXCEPT
                !.users = [id \in {UserId(1), UserId(2)} |->
                              [google_id |-> IF id = UserId(1) THEN "g1" ELSE "g2",
                               encryption_salt |->
                                  [i \in 1..(2 * AES_KEY_SIZE) |->
                                      (i * IF id = UserId(1) THEN 1 ELSE 3) % 16]]]]

SpecVaultAuth == InitVaultAuth /\ [][NextVault]_vars

----------------------------------------------------------------------------
(* Properties *)

ThirtyDays == REFRESH_TOKEN_EXPIRE_DAYS * SECONDS_PER_DAY
FullSteps ==
    <<"state", "discovery", "exchange", "jwks", "validate", "user", "tokens", "session">>
IsPrefix(p, q) == Len(p) <= Len(q) /\ \A i \in 1..Len(p) : p[i] = q[i]
Did(locals, step) == \E i \in 1..Len(locals.steps) : locals.steps[i] = step
IsIssued(state) == state[1] = "state" /\ state[2] \in 1..Len(issued)
IssuedFor(state) == issued[state[2]]
GetsInFlight(state) ==
    {t \in Threads : InFlight(t) /\ thr[t].op = "get" /\ thr[t].state = state}

\* C1: when callers race on get_oauth_state with the same saved, unexpired
\* state token, then once they have all returned exactly one of them was
\* returned the stored data and every other one None.
C1_ExactlyOneWinner ==
    \A state \in StoreKeys :
        ( /\ hist[state].saved
          /\ now <= hist[state].expires_at
          /\ hist[state].returned >= 1
          /\ GetsInFlight(state) = {} )
        => hist[state].served = 1

\* two callers that raced on one unexpired token have returned: one with the
\* data, one with None
C1_Witness ==
    \E t, u \in Threads :
        /\ t # u /\ ~InFlight(t) /\ ~InFlight(u)
        /\ thr[t].op = "get" /\ thr[u].op = "get" /\ thr[t].state = thr[u].state
        /\ thr[t].raced /\ thr[u].raced
        /\ thr[t].ret # None /\ thr[u].ret = None
        /\ hist[thr[t].state].saved /\ now <= hist[thr[t].state].expires_at
        /\ hist[thr[t].state].returned = 2 /\ hist[thr[t].state].served = 1

\* C2: between two saves of a state token at most one get_oauth_state call is
\* returned its data; every later call is returned None, also before the TTL
\* has lapsed.
C2_SingleUse == \A state \in StoreKeys : hist[state].served <= 1

\* a later call, alone and before the expiry, was returned None after an
\* earlier one was returned the data
C2_Witness ==
    \E t \in Threads, state \in StoreKeys :
        /\ ~InFlight(t) /\ thr[t].op = "get" /\ thr[t].state = state
        /\ ~thr[t].raced /\ thr[t].ret = None
        /\ hist[state].saved /\ now <= hist[state].expires_at
        /\ hist[state].served = 1 /\ hist[state].returned >= 2

\* C3: a callback whose state is not in the OAuth state store fails with 400
\* "Invalid or expired state", sends no discovery and no token request, and
\* creates no identity and no session.
C3_UnknownStateRejected ==
    [][\A r \in Slots, code \in Codes, k \in 0..MaxInit :
         ( /\ StateToken(k) \notin DOMAIN oauth_store
           /\ CallbackStart(r, code, StateToken(k)) )
         => /\ last'.kind = "callback" /\ last'.status = 400
            /\ last'.detail = "Invalid or expired state"
            /\ last'.body = None
            /\ last'.req.steps = <<"state">> /\ last'.req.posted = None
            /\ req' = req
            /\ UNCHANGED <<users, google_id_index, email_index, sessions, logins>>]_vars

\* the state of a completed login is presented again and refused
C3_Witness ==
    /\ last.kind = "callback" /\ last.status = 400 /\ last.req.lookup = "absent"
    /\ IsIssued(last.req.state)
    /\ Len(logins) >= 1

\* C4: a callback presenting a state entry that initiate_google_oauth saved at
\* time t is accepted when now <= t + 300 s and fails with 400 "Invalid or
\* expired state" when now > t + 300 s; either way it removes the entry.
C4_StateTtl ==
    [][\A r \in Slots, code \in Codes, k \in 1..MaxInit :
         ( /\ k <= Len(issued)
           /\ StateToken(k) \in DOMAIN oauth_store
           /\ CallbackStart(r, code, StateToken(k)) )
         => /\ StateToken(k) \notin DOMAIN oauth_store'
            /\ IF now <= issued[k].saved_at + STATE_TTL_SECONDS
               THEN /\ req'[r].kind = "callback" /\ req'[r].pc = "discovery"
                    /\ req'[r].state = StateToken(k)
                    /\ last' = NoResponse
               ELSE /\ last'.kind = "callback" /\ last'.status = 400
                    /\ last'.detail = "Invalid or expired state"
                    /\ req' = req]_vars

\* the entry was presented one second after its expiry: refused and removed
C4_Witness ==
    /\ last.kind = "callback" /\ last.status = 400 /\ last.req.lookup = "expired"
    /\ IsIssued(last.req.state)
    /\ now = IssuedFor(last.req.state).saved_at + STATE_TTL_SECONDS + 1
    /\ last.req.state \notin DOMAIN oauth_store

\* C5: the code_verifier a callback sends in its token request and the nonce it
\* checks the id token against are the ones generated by the initiation that
\* issued the state token it was called with.
OfIssuer(locals) ==
    /\ IsIssued(locals.state)
    /\ locals.code_verifier = IssuedFor(locals.state).code_verifier
    /\ locals.nonce = IssuedFor(locals.state).nonce
    /\ locals.posted # None =>
           locals.posted[1].code_verifier = IssuedFor(locals.state).code_verifier
C5_VerifierAndNonceOfIssuer ==
    /\ \A r \in Slots : req[r].kind = "callback" => OfIssuer(req[r])
    /\ (last.kind = "callback" /\ last.req.lookup = "valid") => OfIssuer(last.req)

\* two callbacks of two initiations are in flight, both have sent their token
\* request
C5_Witness ==
    \E r, q \in Slots :
        /\ r # q /\ req[r].kind = "callback" /\ req[q].kind = "callback"
        /\ req[r].posted # None /\ req[q].posted # None
        /\ req[r].state # req[q].state

\* the id token of the handler carries another nonce than the one stored for
\* its state, or none
NonceMismatch(locals) ==
    locals.id_token # None /\ locals.id_token[1].nonce # Some(locals.nonce)

\* C6, as claimed: a callback whose id token carries a wrong nonce, or none,
\* fails with 400 "id_token validation failed".
C6_Original ==
    (last.kind = "callback" /\ NonceMismatch(last.req))
    => (last.status = 400 /\ last.detail = "id_token validation failed")

\* C6, amended: a callback whose id token carries a wrong nonce, or none,
\* creates no identity and no session and returns no tokens; it fails with 400
\* "id_token validation failed" once the key set was fetched, and with 500
\* when the discovery document has no jwks_uri or the key set's fetch fails.
C6_NonceMismatchRejected ==
    [][(last'.kind = "callback" /\ NonceMismatch(last'.req))
       => /\ last'.body = None
          /\ IF Did(last'.req, "validate")
             THEN last'.status = 400 /\ last'.detail = "id_token validation failed"
             ELSE last'.status = 500
          /\ UNCHANGED <<users, google_id_index, email_index, sessions, logins>>]_vars

\* a well-signed id token with the nonce of another initiation was refused
C6_Witness ==
    /\ last.kind = "callback" /\ last.status = 400
    /\ last.detail = "id_token validation failed"
    /\ last.req.id_token[1].jwt_ok
    /\ last.req.id_token[1].nonce # None
    /\ last.req.id_token[1].nonce # Some(last.req.nonce)

\* what holds of a callback that has answered 200
LoginPreconditions(resp) ==
    /\ resp.req.steps = FullSteps
    /\ resp.req.lookup = "valid" /\ resp.req.state \notin DOMAIN oauth_store'
    /\ resp.req.posted # None /\ resp.req.status_code \in TokenStatuses
    /\ resp.req.status_code < 400
    /\ resp.req.id_token # None /\ resp.req.id_token[1].jwt_ok
    /\ resp.req.id_token[1].nonce = Some(IssuedFor(resp.req.state).nonce)
    /\ resp.body # None
    /\ resp.body[1].user.email # ""
    /\ resp.body[1].user.id \in DOMAIN users'
    /\ users'[resp.body[1].user.id].google_id # ""
    /\ hash_refresh_token(resp.body[1].refresh_token) \in DOMAIN sessions'

C8_SessionOfLogin ==
    /\ (last.kind = "callback" /\ last.status = 200) =>
          LET body == last.body[1]
              h == hash_refresh_token(body.refresh_token)
          IN  /\ h \in DOMAIN sessions
              /\ sessions[h] = [user_id |-> body.user.id, created_at |-> now,
                                expires_at |-> now + ThirtyDays]
              /\ logins[Len(logins)] = [refresh_token |-> body.refresh_token,
                                        user_id |-> body.user.id, created_at |-> now]
    /\ last.kind = "refresh" =>
          \A j \in 1..Len(logins) :
              ( /\ logins[j].refresh_token = last.req.refresh_token
                /\ last.req.refresh_token \notin loggedOut
                /\ now <= logins[j].created_at + ThirtyDays )
              => /\ last.status = 200
                 /\ last.body[1].access_token.user_id = logins[j].user_id
                 /\ last.body[1].access_token.key = "JWT_SECRET_KEY"

\* the refresh token of a login is refreshed at the last second of its session
C8_Witness ==
    /\ last.kind = "refresh" /\ last.status = 200
    /\ \E j \in 1..Len(logins) :
          /\ logins[j].refresh_token = last.req.refresh_token
          /\ now = logins[j].created_at + ThirtyDays
          /\ last.body[1].access_token.user_id = logins[j].user_id

\* C9: a successful refresh leaves the session store as it was (same entries,
\* keys, users and expiries), every session in the store is as the login
\* created it, and a refresh with a token whose session is in the store and
\* not expired succeeds, however often it was used before.
C9_RefreshKeepsSession ==
    [][/\ (last'.kind = "refresh" /\ last'.status = 200) => sessions' = sessions
       /\ last'.kind = "refresh" =>
             LET h == hash_refresh_token(last'.req.refresh_token)
             IN  (h \in DOMAIN sessions /\ now <= sessions[h].expires_at)
                 => last'.status = 200
       /\ \A j \in 1..Len(logins') :
             LET h == hash_refresh_token(logins'[j].refresh_token)
             IN  h \in DOMAIN sessions' =>
                     sessions'[h] = [user_id |-> logins'[j].user_id,
                                     created_at |-> logins'[j].created_at,
                                     expires_at |-> logins'[j].created_at + ThirtyDays]
      ]_vars

\* a refresh succeeded some time after the login, the session's expiry is the
\* one set at the login
C9_Witness ==
    /\ last.kind = "refresh" /\ last.status = 200
    /\ \E j \in 1..Len(logins) :
          LET h == hash_refresh_token(logins[j].refresh_token)
          IN  /\ logins[j].refresh_token = last.req.refresh_token
              /\ now > logins[j].created_at
              /\ h \in DOMAIN sessions
              /\ sessions[h].expires_at = logins[j].created_at + ThirtyDays

\* C10: once logout was called with a refresh token, every refresh with that
\* token answers 401 without an access token; a logout removes the session of
\* its token and leaves every other session as it was.
C10_LogoutRevokes ==
    [][/\ (last'.kind = "refresh" /\ last'.req.refresh_token \in loggedOut) =>
              (last'.status = 401 /\ last'.body = None)
       /\ last'.kind = "logout" =>
              LET h == hash_refresh_token(last'.req.refresh_token)
              IN  /\ last'.status = 204
                  /\ h \notin DOMAIN sessions'
                  /\ DOMAIN sessions' = (DOMAIN sessions) \ {h}
                  /\ \A g \in DOMAIN sessions' : sessions'[g] = sessions[g]
      ]_vars

\* a refresh with a logged-out token was refused while another session lives
C10_Witness ==
    /\ last.kind = "refresh" /\ last.status = 401
    /\ last.req.refresh_token \in loggedOut
    /\ DOMAIN sessions # {}

\* C11: delete_user_sessions(u) removes every session whose user_id is u and
\* leaves every session of every other user as it was; afterwards a refresh
\* with a refresh token that was issued to u before the call answers 401.
C11_LogoutEverywhere ==
    [][/\ \A n \in 1..MaxInit :
             DeleteUserSessions(UserId(n)) =>
                 /\ DOMAIN sessions' =
                        {h \in DOMAIN sessions : sessions[h].user_id # UserId(n)}
                 /\ \A h \in DOMAIN sessions' : sessions'[h] = sessions[h]
                 /\ \A j \in 1..Len(logins) :
                        logins[j].user_id = UserId(n) =>
                            /\ logins[j].refresh_token \in revoked'
                            /\ hash_refresh_token(logins[j].refresh_token)
                                   \notin DOMAIN sessions'
       /\ \A t \in revoked' : hash_refresh_token(t) \notin DOMAIN sessions'
       /\ (last'.kind = "refresh" /\ last'.req.refresh_token \in revoked) =>
              (last'.status = 401 /\ last'.body = None)
      ]_vars

\* both sessions of one identity were removed by one call, and a refresh with
\* one of their tokens was refused
C11_Witness ==
    /\ Len(logins) = 2 /\ logins[1].user_id = logins[2].user_id
    /\ loggedOut = {}
    /\ revoked = {logins[1].refresh_token, logins[2].refresh_token}
    /\ last.kind = "refresh" /\ last.status = 401
    /\ last.req.refresh_token \in revoked

\* the refresh tokens the callbacks have returned so far
RawTokens == {logins[j].refresh_token : j \in 1..Len(logins)}

\* C12: no store holds a raw refresh token: the session store is keyed by the
\* hashes of the returned refresh tokens and by nothing else, a session holds
\* a user id and two times, the user store and the OAuth state store hold no
\* token, and the raw token is in the login response.
C12_NoRawRefreshToken ==
    /\ \A h \in DOMAIN sessions :
          /\ h[1] = "sha256"
          /\ h \notin RawTokens
          /\ \E t \in RawTokens : h = hash_refresh_token(t)
          /\ DOMAIN sessions[h] = {"user_id", "created_at", "expires_at"}
          /\ sessions[h].user_id \in DOMAIN users
    /\ \A u \in DOMAIN users :
          /\ u[1] = "user"
          /\ DOMAIN users[u] = {"id", "google_id", "email", "name", "picture_url"}
          /\ users[u].id = u
    /\ \A g \in DOMAIN google_id_index : google_id_index[g] \in DOMAIN users
    /\ \A e \in DOMAIN email_index : email_index[e] \in DOMAIN users
    /\ \A st \in DOMAIN oauth_store :
          /\ st[1] = "state"
          /\ DOMAIN oauth_store[st] =
                 {"code_verifier", "nonce", "redirect_to", "expires_at"}
          /\ oauth_store[st].code_verifier[1] = "verifier"
          /\ oauth_store[st].nonce[1] = "nonce"
    /\ (last.kind = "callback" /\ last.status = 200) =>
          /\ last.body[1].refresh_token \in RawTokens
          /\ last.body[1].refresh_token \notin DOMAIN sessions
          /\ hash_refresh_token(last.body[1].refresh_token) \in DOMAIN sessions

\* a login has answered with its raw refresh token, the session store holds a
\* session under the token's hash and a session of an earlier login
C12_Witness ==
    /\ last.kind = "callback" /\ last.status = 200
    /\ last.body[1].refresh_token = RefreshToken(2)
    /\ DOMAIN sessions = {hash_refresh_token(RefreshToken(1)),
                          hash_refresh_token(RefreshToken(2))}
    /\ oauth_store = EmptyDict

\* C13: under every interleaving of callbacks the user store holds at most
\* one identity per subject id, the identity of a subject id never changes,
\* and a successful callback whose id token names the subject id returns that
\* identity: the one it finds, or the one it creates when there is none.
C13_OneIdentityPerSubject ==
    [][/\ \A u, v \in DOMAIN users' :
             users'[u].google_id = users'[v].google_id => u = v
       /\ \A u \in DOMAIN users' :
             /\ users'[u].google_id \in DOMAIN google_id_index'
             /\ google_id_index'[users'[u].google_id] = u
       /\ \A g \in DOMAIN google_id_index :
             /\ g \in DOMAIN google_id_index'
             /\ google_id_index'[g] = google_id_index[g]
       /\ \A r \in Slots, claims \in Claims :
             ( /\ CallbackJwksReturns(r, TRUE, claims)
               /\ last'.status = 200 )
             => /\ claims.sub \in DOMAIN google_id_index'
                /\ last'.body[1].user.id = google_id_index'[claims.sub]
                /\ users'[last'.body[1].user.id].google_id = claims.sub
                /\ logins'[Len(logins')].user_id = last'.body[1].user.id
                /\ claims.sub \in DOMAIN google_id_index => users' = users
      ]_vars

\* two first-time callbacks for one subject id were in flight together; the
\* first to finish created the identity, the second has now returned the same
\* identity and the user store holds only that one
C13_Witness ==
    /\ last.kind = "callback" /\ last.status = 200
    /\ Len(logins) = 2 /\ logins[1].user_id = logins[2].user_id
    /\ last.body[1].user.id = logins[1].user_id
    /\ last.req.state \in concurrent[1]
    /\ Cardinality(DOMAIN users) = 1

\* C14: no two identities in the user store have the same email, also when
\* callbacks arrive for two subject ids whose id tokens carry the same email.
C14_EmailUnique ==
    \A u, v \in DOMAIN users : users[u].email = users[v].email => u = v

\* C15: every identity a successful callback has created has a per-identity
\* salt from its creation on, and no later step changes that salt.
C15_SaltFromCreation ==
    [][\A u \in DOMAIN users' :
           /\ "encryption_salt" \in DOMAIN users'[u]
           /\ u \in DOMAIN users =>
                  users'[u].encryption_salt = users[u].encryption_salt]_vars

\* the verifications the token history holds: the last one and the one before
Verdicts == {jwt.result[1] : x \in {y \in {1} : jwt.result # None}}
            \cup {jwt.prev[1] : x \in {y \in {1} : jwt.prev # None}}
LifetimeSeconds == ACCESS_TOKEN_EXPIRE_MINUTES * 60

\* C16: verify_access_token accepts an access token that create_access_token
\* issued at time t at every time before t + ACCESS_TOKEN_EXPIRE_MINUTES and
\* rejects it with the expired-signature error at every time after it.
C16_AccessTokenLifetime ==
    \A v \in Verdicts :
        (v.by = "verify_access_token" /\ v.token.key = "JWT_SECRET_KEY")
        => /\ v.token.exp = v.token.iat + LifetimeSeconds
           /\ v.at < v.token.iat + LifetimeSeconds => (v.ok /\ v.error = "")
           /\ v.at > v.token.iat + LifetimeSeconds =>
                  (~v.ok /\ v.error = "ExpiredSignatureError")

\* one token was accepted at minute 29 and rejected as expired at minute 31
C16_Witness ==
    /\ jwt.prev # None /\ jwt.result # None
    /\ jwt.prev[1].by = "verify_access_token"
    /\ jwt.result[1].by = "verify_access_token"
    /\ jwt.prev[1].token = jwt.result[1].token
    /\ jwt.result[1].token.key = "JWT_SECRET_KEY"
    /\ jwt.prev[1].at = jwt.prev[1].token.iat + 29 * 60 /\ jwt.prev[1].ok
    /\ jwt.result[1].at = jwt.result[1].token.iat + 31 * 60
    /\ jwt.result[1].error = "ExpiredSignatureError"

\* C17: an authenticated endpoint answers a token with a bad signature, a
\* token with a lapsed expiry and a token without the required claims with
\* three different errors.
C17_DistinctTokenErrors ==
    \A v, w \in Verdicts :
        ( /\ v.by = w.by /\ v.by \in {"me", "vault"}
          /\ v.scheme = "Bearer" /\ w.scheme = "Bearer"
          /\ Cardinality(v.defects) = 1 /\ Cardinality(w.defects) = 1
          /\ v.defects # w.defects )
        => <<v.status, v.detail>> # <<w.status, w.detail>>


\* the decryptions recorded so far: the last one and the one before it
Decryptions == {aead.result[i] : i \in 1..Len(aead.result)}
                   \cup {aead.before[i] : i \in 1..Len(aead.before)}
Encrypted == aead.produced # None /\ aead.produced[1].ok
\* the blob differs from the produced one in the nonce, ciphertext or tag bytes
Modified(blob) ==
    /\ B64Decode(blob).ok
    /\ B64Decode(blob).bytes # B64Decode(aead.produced[1].value).bytes
    /\ Len(B64Decode(blob).bytes) = Len(B64Decode(aead.produced[1].value).bytes)
\* AES-GCM rejects the tag of the blob under the key
TagFails(blob, key) ==
    /\ B64Decode(blob).ok /\ ValidKey(key)
    /\ AESGCM_decrypt(key, NonceOf(B64Decode(blob).bytes),
                      CiphertextOf(B64Decode(blob).bytes)).error = "InvalidTag"

\* C18: for every plaintext P and every valid 32-byte key K,
\* decrypt_content(encrypt_content(P, K), K) returns P
C18_RoundTrip ==
    Len(aead.key) = AES_KEY_SIZE =>
        /\ aead.produced # None => aead.produced[1].ok
        /\ \A d \in Decryptions :
              d.blob = aead.produced[1].value /\ d.key = aead.key
                  => d.outcome = Returned(aead.plaintext)

C18_Witness ==
    /\ Encrypted /\ aead.result # None /\ aead.touched = {}
    /\ aead.plaintext = <<97, 233>>
    /\ aead.result[1].key = aead.key
    /\ aead.result[1].outcome.ok /\ aead.result[1].outcome.value = <<97, 233>>

----------------------------------------------------------------------------
(* Properties of the vault and tag routes *)

\* the request the routes served last, and whether get_current_user let it
\* through to a service written against the session of the deployment
Request == vault[2]
Reached(request) == request.result # None
Called(op) ==
    vault # None /\ vault[1] = op /\ Reached(Request) /\ db.session = "Session"
\* the outcome of the service call of a request, and the value it returned
Result(request) == request.result[1]
Value(request) == request.result[1].value[1]

C22_SaltLengthChecked ==
    \A id \in DOMAIN db.users :
        (vault # None /\ Reached(Request) /\ Request.user_id = id)
            => Len(fromhex(db.users[id].encryption_salt).bytes) = AES_KEY_SIZE

\* the master keys of the users of the database, and the byte and character
\* sequences its rows hold, as stored and base64-decoded
MasterKeys_Of(d) ==
    {derive_master_key(d.users[id].google_id,
                       fromhex(d.users[id].encryption_salt).bytes).value :
        id \in {u \in DOMAIN d.users : fromhex(d.users[u].encryption_salt).ok}}
StoredIn(d) ==
    LET blobs == {d.vault_items[i].content_encrypted : i \in 1..Len(d.vault_items)}
                 \cup {d.vault_items[i].metadata_encrypted[1] :
                          i \in {j \in 1..Len(d.vault_items) :
                                    d.vault_items[j].metadata_encrypted # None}}
    IN  blobs
        \cup {B64Decode(b).bytes : b \in {e \in blobs : B64Decode(e).ok}}
        \cup {d.vault_items[i].title : i \in 1..Len(d.vault_items)}
        \cup {d.users[id].encryption_salt : id \in DOMAIN d.users}
        \cup {fromhex(d.users[id].encryption_salt).bytes : id \in DOMAIN d.users}
Holds(stored, key) ==
    \E k \in 0..(Len(stored) - Len(key)) : SubSeq(stored, k + 1, k + Len(key)) = key

\* C23: no row of the database holds a master key, as it is or encoded, in
\* any state; the key of a request is the one get_current_user derives for it
\* from the row of its user, and the stores of identities, sessions and OAuth
\* states are not written by the vault routes
C23_KeyNeverStored ==
    /\ \A key \in MasterKeys_Of(db), stored \in StoredIn(db) : ~Holds(stored, key)
    /\ (vault # None /\ Reached(Request)) => Request.master_key \in MasterKeys_Of(db)
    /\ users = EmptyDict /\ sessions = EmptyDict /\ oauth_store = EmptyDict

\* records were written under the key of a request, one of them with
\* metadata
C23_Witness ==
    /\ Called("create_item") /\ Result(Request).ok
    /\ Request.master_key \in MasterKeys_Of(db)
    /\ db.commits = MaxCommits
    /\ \E i \in 1..Len(db.vault_items) : db.vault_items[i].metadata_encrypted # None

\* the records of a user that are not soft-deleted, and the ids of the
\* records of a page
Live(d, user_id) ==
    {i \in 1..Len(d.vault_items) : /\ d.vault_items[i].user_id = user_id
                                   /\ d.vault_items[i].deleted_at = None}
PageIds(page) == {page.items[k].id : k \in 1..Len(page.items)}
Unfiltered(query) ==
    query.type = None /\ query.source = None /\ query.tags = None /\ query.search = None

\* C24: a record of the caller that no delete_item was called on is returned
\* by get_item and is among the records of a list_items without filters;
\* delete_item on it sets deleted_at and keeps the row with its other columns,
\* and a record with deleted_at set is not found by get_item and is in the
\* page of no list_items, filtered or not
C24_SoftDelete ==
    [][(vault' # None /\ Reached(vault'[2]) /\ db.session = "Session") =>
          LET op == vault'[1]
              request == vault'[2]
              mine == Live(db, request.user_id)
          IN  /\ (op = "get_item" /\ request.args \in 1..Len(db.vault_items)
                    /\ db.vault_items[request.args].user_id = request.user_id)
                   => /\ Result(request).ok
                      /\ request.args \in mine
                            => /\ Value(request) # None
                               /\ Value(request)[1].id = request.args
                      /\ request.args \notin mine => Value(request) = None
              /\ op = "list_items"
                   => /\ Result(request).ok
                      /\ PageIds(Value(request)) \subseteq mine
                      /\ Unfiltered(request.args)
                            => Value(request).total = Cardinality(mine)
                      /\ (Unfiltered(request.args) /\ request.args.page = 1
                            /\ request.args.page_size >= Cardinality(mine))
                           => PageIds(Value(request)) = mine
              /\ (op = "delete_item" /\ request.args \in mine)
                   => /\ Result(request) = Returned(Some(Some(now)))
                      /\ Len(db'.vault_items) = Len(db.vault_items)
                      /\ \A i \in 1..Len(db.vault_items) :
                            db'.vault_items[i]
                               = IF i = request.args
                                 THEN [db.vault_items[i] EXCEPT
                                          !.deleted_at = Some(now),
                                          !.updated_at = db.commits]
                                 ELSE db.vault_items[i]]_vars

\* get_item did not find a record of the caller that is still a row, with
\* deleted_at set
C24_Witness ==
    /\ Called("get_item") /\ Request.args \in 1..Len(db.vault_items)
    /\ db.vault_items[Request.args].user_id = Request.user_id
    /\ db.vault_items[Request.args].deleted_at # None
    /\ Result(Request).ok /\ Value(Request) = None

\* the rows of the database that are not a user's: records, tags, and the
\* tags attached to those records
NotOf(d, user_id) ==
    [vault_items |-> {d.vault_items[i] : i \in {j \in 1..Len(d.vault_items) :
                                                  d.vault_items[j].user_id # user_id}},
     tags |-> {d.tags[id] : id \in {x \in DOMAIN d.tags : d.tags[x].user_id # user_id}},
     vault_item_tags |-> {p \in d.vault_item_tags :
                             d.vault_items[p[1]].user_id # user_id}]
OwnsItem(d, user_id, item_id) ==
    item_id \in 1..Len(d.vault_items) /\ d.vault_items[item_id].user_id = user_id
OwnsTag(d, user_id, tag_id) ==
    tag_id \in DOMAIN d.tags /\ d.tags[tag_id].user_id = user_id

\* C25: a request of a user leaves every record, tag and tag attachment of
\* another user as it was, and returns no record and no tag of another user:
\* get_item, update_item and delete_item return None for another user's record,
\* list_items pages hold the caller's records only, and get_tag, update_tag,
\* delete_tag and list_tags act on the caller's tags only
C25_OwnerIsolation ==
    [][(vault' # None /\ Reached(vault'[2]) /\ db.session = "Session") =>
          LET op == vault'[1]
              request == vault'[2]
              caller == request.user_id
              args == request.args
          IN  /\ NotOf(db', caller) = NotOf(db, caller)
              /\ Result(request).ok =>
                   /\ op \in {"get_item", "delete_item"}
                        => (Value(request) # None => OwnsItem(db, caller, args))
                   /\ op = "get_item" /\ Value(request) # None
                        => Value(request)[1].id = args
                   /\ op = "update_item"
                        => (Value(request) # None
                              => /\ OwnsItem(db, caller, args.item_id)
                                 /\ Value(request)[1].id = args.item_id)
                   /\ op = "list_items"
                        => \A id \in PageIds(Value(request)) : OwnsItem(db, caller, id)
                   /\ op = "get_tag"
                        => (Value(request) # None
                              => /\ OwnsTag(db, caller, args)
                                 /\ Value(request)[1].id = args)
                   /\ op = "update_tag"
                        => (Value(request) # None
                              => /\ OwnsTag(db, caller, args.tag_id)
                                 /\ Value(request)[1].id = args.tag_id)
                   /\ op = "delete_tag"
                        => (Value(request) => OwnsTag(db, caller, args))
                   /\ op = "list_tags"
                        => \A tag \in Value(request) : OwnsTag(db, caller, tag.id)]_vars

\* a user asked to delete a record of another user that is not deleted, and
\* the service found no such record
C25_Witness ==
    /\ Called("delete_item") /\ Request.args \in 1..Len(db.vault_items)
    /\ db.vault_items[Request.args].user_id # Request.user_id
    /\ db.vault_items[Request.args].deleted_at = None
    /\ Result(Request).ok /\ Value(Request) = None

\* C26: when the service finds no record of the caller under the item id (no
\* such id, soft-deleted, or another user's), the routes get_vault_item,
\* update_vault_item and delete_vault_item answer 404, which they answer for
\* no other outcome
C26_NotFoundIs404 ==
    (vault # None /\ Reached(Request)
       /\ vault[1] \in {"get_item", "update_item", "delete_item"})
        => (Request.answer.status = 404
              <=> (Result(Request).ok /\ Value(Request) = None))

\* the records of a user that are not soft-deleted and carry a tag with one
\* of the names
Tagged(d, user_id, names) ==
    {i \in Live(d, user_id) :
        \E p \in d.vault_item_tags :
            /\ p[1] = i
            /\ \E k \in 1..Len(names) : d.tags[p[2]].name = names[k]}

\* C27: list_items with a non-empty list of tag names and no other filter
\* returns the records of the caller that are not deleted and carry a tag
\* with one of the names, and counts them, whether or not the caller has a
\* tag of each name
C27_TagFilter ==
    (Called("list_items") /\ Request.args.tags # None /\ Request.args.tags[1] # <<>>
       /\ Request.args.type = None /\ Request.args.source = None
       /\ Request.args.search = None /\ Request.args.page = 1
       /\ Request.args.page_size >= Cardinality(Live(db, Request.user_id)))
        => /\ Result(Request).ok
           /\ PageIds(Value(Request))
                 = Tagged(db, Request.user_id, Request.args.tags[1])
           /\ Value(Request).total
                 = Cardinality(Tagged(db, Request.user_id, Request.args.tags[1]))

\* the records of a user that are not soft-deleted and match the filters of a
\* list query
Matching(d, user_id, query) ==
    {i \in Live(d, user_id) :
        /\ query.type # None => d.vault_items[i].type = query.type[1]
        /\ query.source # None => d.vault_items[i].source = query.source[1]
        /\ query.search # None => ilike(d.vault_items[i].title, query.search[1])
        /\ query.tags # None => i \in Tagged(d, user_id, query.tags[1])}

\* C28: list_items returns at most page_size records, as total the number of
\* records of the caller that are not deleted and match the filters, and
\* has_more = ((page - 1) * page_size + page_size < total), which is true
\* exactly when records that match lie beyond the returned page
C28_Paging ==
    Called("list_items") =>
        LET query == Request.args
            page == Value(Request)
            matching == Matching(db, Request.user_id, query)
            offset == (query.page - 1) * query.page_size
        IN  /\ Result(Request).ok
            /\ Len(page.items) <= query.page_size
            /\ page.total = Cardinality(matching)
            /\ page.has_more = (offset + query.page_size < page.total)
            /\ page.has_more <=> Cardinality(matching) > offset + Len(page.items)

\* the same for the queries without a tag filter
C28_PagingUntagged == Called("list_items") /\ Request.args.tags = None => C28_Paging

\* the names of the tags attached to a record
TagNames(d, item_id) ==
    {d.tags[p[2]].name : p \in {q \in d.vault_item_tags : q[1] = item_id}}

\* C29: update_item on a record of the caller sets title and type to the
\* values of the patch and stores the encryption of its content and metadata,
\* leaves each of these as it was when the patch does not have it, never
\* changes source, source id, owner, id, creation time and deleted_at, leaves
\* the tags as they were without tags in the patch and otherwise attaches
\* exactly the tags named in the patch; no other record changes
C29_UpdateFrame ==
    [][(vault' # None /\ Reached(vault'[2]) /\ db.session = "Session"
          /\ vault'[1] = "update_item"
          /\ FindItem(db, vault'[2].user_id, vault'[2].args.item_id)) =>
          LET request == vault'[2]
              item_id == request.args.item_id
              patch == request.args.update_data
              old == db.vault_items[item_id]
              new == db'.vault_items[item_id]
          IN  /\ Result(request).ok /\ Value(request) # None
              /\ Len(db'.vault_items) = Len(db.vault_items)
              /\ \A i \in 1..Len(db.vault_items) :
                    i # item_id => /\ db'.vault_items[i] = db.vault_items[i]
                                   /\ TagNames(db', i) = TagNames(db, i)
              /\ new.title = IF patch.title # None THEN patch.title[1] ELSE old.title
              /\ new.type = IF patch.type # None THEN patch.type[1] ELSE old.type
              /\ IF patch.content # None
                 THEN decrypt_content(new.content_encrypted, request.master_key)
                         = Returned(patch.content[1])
                 ELSE new.content_encrypted = old.content_encrypted
              /\ IF patch.metadata # None
                 THEN /\ new.metadata_encrypted # None
                      /\ decrypt_content(new.metadata_encrypted[1], request.master_key)
                             = Returned(json_dumps(patch.metadata[1]))
                 ELSE new.metadata_encrypted = old.metadata_encrypted
              /\ new.source = old.source /\ new.source_id = old.source_id
              /\ new.user_id = old.user_id /\ new.deleted_at = old.deleted_at
              /\ new.id = old.id /\ new.created_at = old.created_at
              /\ TagNames(db', item_id)
                    = IF patch.tags # None
                      THEN {patch.tags[1][k] : k \in 1..Len(patch.tags[1])}
                      ELSE TagNames(db, item_id)
              /\ Value(request)[1].tags = TagNames(db', item_id)]_vars

\* an update with the tags ["work"] of the note that was created with the tag
\* "health" left it with the tag "work" alone
C29_Witness ==
    /\ Called("update_item") /\ Result(Request).ok /\ Value(Request) # None
    /\ Request.args.update_data.tags = Some(<<"work">>)
    /\ Value(Request)[1].type = "note"
    /\ Value(Request)[1].tags = {"work"}
    /\ \E id \in DOMAIN db.tags : OwnsTag(db, Request.user_id, id)
                                      /\ db.tags[id].name = "health"

\* the tags of a user with a name, but for one tag
NamedLike(d, user_id, name, but) ==
    {id \in DOMAIN d.tags \ but : d.tags[id].user_id = user_id /\ d.tags[id].name = name}

\* C30: after every request no user has two tags of one name; create_tag with
\* a name of a tag of the caller, and update_tag that renames a tag of the
\* caller to the name of another tag of the caller, fail with the conflict
\* error, are answered 409 and leave the database as it was
C30_TagNamesUnique ==
    [][(vault' # None /\ Reached(vault'[2]) /\ db.session = "Session") =>
          LET op == vault'[1]
              request == vault'[2]
              caller == request.user_id
              args == request.args
          IN  /\ \A id \in DOMAIN db'.tags :
                    NamedLike(db', db'.tags[id].user_id, db'.tags[id].name, {id}) = {}
              /\ (op = "create_tag" /\ NamedLike(db, caller, args.name, {}) # {})
                   => /\ ~Result(request).ok
                      /\ request.answer.status = 409
                      /\ db' = db
              /\ (op = "update_tag" /\ OwnsTag(db, caller, args.tag_id)
                     /\ args.update_data.name # None
                     /\ NamedLike(db, caller, args.update_data.name[1],
                                  {args.tag_id}) # {})
                   => /\ ~Result(request).ok
                      /\ request.answer.status = 409
                      /\ db' = db]_vars

\* a user with two tags asked to rename one to the name of the other and was
\* answered 409
C30_Witness ==
    /\ Called("update_tag") /\ ~Result(Request).ok
    /\ Request.answer.status = 409
    /\ OwnsTag(db, Request.user_id, Request.args.tag_id)
    /\ NamedLike(db, Request.user_id, Request.args.update_data.name[1],
                 {Request.args.tag_id}) # {}
    /\ db.tags[Request.args.tag_id].name # Request.args.update_data.name[1]

\* a credential that get_current_user has to turn away: no value, no Bearer
\* credential, a token that fails verification or has no user_id, or a token
\* of a user without a row
TurnedAway(presented, d, t) ==
    \/ presented.authorization = None
    \/ presented.authorization[1] # "Bearer"
    \/ Defects(presented.token, t) # {}
    \/ presented.token.user_id \notin DOMAIN d.users

----------------------------------------------------------------------------
(* SpecLocks: the request flows with every store method taken apart into   *)
(* the entry of its `with self._lock:` and its body up to the return, and  *)
(* every provider call into the await and the answer.                      *)

\* a store method, and a provider call (no store)
StoreCall(store, method) == [store |-> store, method |-> method]
ProviderCall(call) == [store |-> "", method |-> call]

\* the store methods and provider calls of a handler, in the order of its code
HandlerCalls(kind) ==
    CASE kind = "initiate" ->
            <<StoreCall("oauth", "save_oauth_state"), ProviderCall("fetch_oidc_config")>>
      [] kind = "callback" ->
            <<StoreCall("oauth", "get_oauth_state"), ProviderCall("fetch_oidc_config"),
              ProviderCall("post"), ProviderCall("fetch_jwks"),
              StoreCall("user", "get_user_by_google_id"), StoreCall("user", "create_user"),
              StoreCall("session", "create_session")>>
      [] kind = "refresh" ->
            <<StoreCall("session", "get_session"), StoreCall("user", "get_user")>>
      [] kind = "logout" -> <<StoreCall("session", "delete_session")>>
      [] OTHER -> <<>>

\* the call a handler with these locals is at
CurrentCall(locals) == HandlerCalls(locals.kind)[Len(locals.steps) + 1]

\* the end of `with self._lock:` as the method returns
ReleaseOnReturn_Keep(locks, store) == locks
ReleaseOnReturn(locks, store) == [locks EXCEPT ![store] = 0]

\* the handler in slot r, past the calls `done`, goes to its next call
GoOn(r, locals, done) ==
    LET after == [locals EXCEPT !.steps = @ \o done]
        next == CurrentCall(after)
    IN  /\ req' = [req EXCEPT ![r] = [after EXCEPT !.pc = IF next.store = "" THEN "await"
                                                         ELSE "acquire"]]
        /\ last' = NoResponse

\* a request arrives and its handler runs up to its first store method
Arrives(r, kind, state, refresh_token) ==
    /\ FreeSlot(r)
    /\ GoOn(r, [IdleReq EXCEPT !.kind = kind, !.state = state, !.code = "code1",
                               !.refresh_token = refresh_token,
                               !.code_verifier = Verifier(state[2]),
                               !.nonce = Nonce(state[2])], <<>>)
    /\ UNCHANGED <<extVars, concurrent, now, ticks, storeVars, logins, loggedOut, raceVars>>

InitiateArrives(r) ==
    /\ Len(issued) < MaxInit
    /\ Arrives(r, "initiate", StateToken(Len(issued) + 1), RefreshToken(0))
    /\ issued' = Append(issued, [state |-> StateToken(Len(issued) + 1),
                                 code_verifier |-> Verifier(Len(issued) + 1),
                                 nonce |-> Nonce(Len(issued) + 1), saved_at |-> now])

OtherArrives(r, kind, state, refresh_token) ==
    /\ Arrives(r, kind, state, refresh_token)
    /\ UNCHANGED issued

\* with self._lock: (blocks while another request is inside)
EnterStore(r) ==
    /\ req[r].pc = "acquire"
    /\ held[CurrentCall(req[r]).store] = 0
    /\ held' = [held EXCEPT ![CurrentCall(req[r]).store] = r]
    /\ req' = [req EXCEPT ![r].pc = "locked"]
    /\ last' = NoResponse
    /\ UNCHANGED <<revoked, jwt, aead, vaultVars, concurrent, now, ticks, storeVars, issued,
                   logins, loggedOut, raceVars>>

\* the body of the store method and its return; the handler goes on to its
\* next call, or ends with a response
StoreMethodReturns(r) ==
    /\ req[r].pc = "locked"
    /\ held' = ReleaseOnReturn(held, CurrentCall(req[r]).store)
    /\ LET method == CurrentCall(req[r]).method
           token_hash == hash_refresh_token(req[r].refresh_token)
           email == IF req[r].sub = "g1" THEN "a@x.org" ELSE "b@x.org"
           state_data == get_oauth_state(oauth_store, req[r].state, now)
           session == get_session(sessions, token_hash, now)
           found == get_user_by_google_id(users, google_id_index, req[r].sub)
           created == create_user(users, google_id_index, email_index, req[r].sub,
                                  email, "", "")
           refresh_token == RefreshToken(Len(logins) + 1)
           Ends(status, detail, body) ==
               /\ last' = Response([req[r] EXCEPT !.steps = Append(@, method)],
                                   status, detail, body)
               /\ req' = [req EXCEPT ![r] = IdleReq]
       IN  CASE method = "save_oauth_state" ->
                  /\ oauth_store' = save_oauth_state(oauth_store, req[r].state,
                                        [code_verifier |-> req[r].code_verifier,
                                         nonce |-> req[r].nonce, redirect_to |-> ""],
                                        STATE_TTL_SECONDS, now)
                  /\ GoOn(r, req[r], <<method>>)
                  /\ UNCHANGED <<sessions, users, google_id_index, email_index, logins,
                                 loggedOut>>
             [] method = "get_oauth_state" ->
                  /\ oauth_store' = state_data.store
                  /\ IF state_data.ret = None
                     THEN Ends(400, "Invalid or expired state", None)
                     ELSE GoOn(r, req[r], <<method>>)
                  /\ UNCHANGED <<sessions, users, google_id_index, email_index, logins,
                                 loggedOut>>
             [] method = "get_user_by_google_id" ->
                  /\ IF found = None
                     THEN GoOn(r, req[r], <<method>>)
                     ELSE GoOn(r, [req[r] EXCEPT !.user_id = Some(found[1].id)],
                               <<method, "">>)
                  /\ UNCHANGED <<storeVars, logins, loggedOut>>
             [] method = "create_user" ->
                  /\ users' = created.users
                  /\ google_id_index' = created.google_id_index
                  /\ email_index' = created.email_index
                  /\ GoOn(r, [req[r] EXCEPT !.user_id = Some(created.ret.id)], <<method>>)
                  /\ UNCHANGED <<oauth_store, sessions, logins, loggedOut>>
             [] method = "create_session" ->
                  /\ sessions' = create_session(sessions, req[r].user_id[1],
                                     hash_refresh_token(refresh_token),
                                     REFRESH_TOKEN_EXPIRE_DAYS, now)
                  /\ logins' = Append(logins, [refresh_token |-> refresh_token,
                                               user_id |-> req[r].user_id[1],
                                               created_at |-> now])
                  /\ Ends(200, "",
                          Some(LoginResponse(
                              create_access_token(req[r].user_id[1],
                                                  users[req[r].user_id[1]].email, now),
                              refresh_token, users[req[r].user_id[1]])))
                  /\ UNCHANGED <<oauth_store, users, google_id_index, email_index,
                                 loggedOut>>
             [] method = "get_session" ->
                  /\ sessions' = session.sessions
                  /\ IF session.ret = None
                     THEN Ends(401, "Invalid or expired refresh token", None)
                     ELSE GoOn(r, [req[r] EXCEPT !.user_id = Some(session.ret[1].user_id)],
                               <<method>>)
                  /\ UNCHANGED <<oauth_store, users, google_id_index, email_index, logins,
                                 loggedOut>>
             [] method = "get_user" ->
                  /\ IF get_user(users, req[r].user_id[1]) = None
                     THEN Ends(401, "User not found", None)
                     ELSE Ends(200, "",
                               Some(RefreshResponse(
                                   create_access_token(req[r].user_id[1],
                                       users[req[r].user_id[1]].email, now))))
                  /\ UNCHANGED <<storeVars, logins, loggedOut>>
             [] method = "delete_session" ->
                  /\ sessions' = delete_session(sessions, token_hash)
                  /\ loggedOut' = loggedOut \cup
                        {t \in {req[r].refresh_token} :
                            \E j \in 1..Len(logins) : logins[j].refresh_token = t}
                  /\ Ends(204, "", None)
                  /\ UNCHANGED <<oauth_store, users, google_id_index, email_index, logins>>
    /\ UNCHANGED <<revoked, jwt, aead, vaultVars, concurrent, now, ticks, issued, raceVars>>

\* the provider answers the call the handler awaits: the handler fails, or
\* goes on (an initiation answers with the redirect); sub is the subject id
\* of the id token the key set verified
ProviderAnswers(r, ok, sub) ==
    /\ req[r].pc = "await"
    /\ LET call == CurrentCall(req[r]).method
           locals == [req[r] EXCEPT !.steps = Append(@, call)]
       IN  IF ~ok
           THEN /\ last' = Response(locals, 500, "Login failed", None)
                /\ req' = [req EXCEPT ![r] = IdleReq]
           ELSE IF req[r].kind = "initiate"
           THEN /\ last' = Response(locals, 307, "", Some(AuthUrlParams(r)))
                /\ req' = [req EXCEPT ![r] = IdleReq]
           ELSE GoOn(r, IF call = "fetch_jwks" THEN [req[r] EXCEPT !.sub = sub] ELSE req[r],
                     <<call>>)
    /\ UNCHANGED <<extVars, concurrent, now, ticks, storeVars, issued, logins, loggedOut,
                   raceVars>>

NextLocks ==
    \/ \E r \in Slots : InitiateArrives(r)
    \/ \E r \in Slots, k \in 0..Len(issued) :
          OtherArrives(r, "callback", StateToken(k), RefreshToken(0))
    \/ \E r \in Slots, kind \in {"refresh", "logout"}, j \in 0..Len(logins) :
          OtherArrives(r, kind, StateToken(0), RefreshToken(j))
    \/ \E r \in Slots : EnterStore(r)
    \/ \E r \in Slots : StoreMethodReturns(r)
    \/ \E r \in Slots, ok \in BOOLEAN, sub \in GoogleIds : ProviderAnswers(r, ok, sub)

SpecLocks == Init /\ [][NextLocks]_vars

----------------------------------------------------------------------------
(* SpecLogout: after two logins, of one identity or of two, the clients    *)
(* refresh, log out and call GET /api/auth/me with the access tokens they  *)
(* were given, as the clock advances.                                      *)

\* the stores and histories after the logins of the subjects subs at time 0
AfterLogins(subs) ==
    LET Users[i \in 0..Len(subs)] ==
            IF i = 0
            THEN [users |-> EmptyDict, google_id_index |-> EmptyDict,
                  email_index |-> EmptyDict]
            ELSE IF get_user_by_google_id(Users[i - 1].users, Users[i - 1].google_id_index,
                                          subs[i]) # None
            THEN Users[i - 1]
            ELSE create_user(Users[i - 1].users, Users[i - 1].google_id_index,
                             Users[i - 1].email_index, subs[i],
                             IF subs[i] = "g1" THEN "a@x.org" ELSE "b@x.org", "", "")
        Sessions[i \in 0..Len(subs)] ==
            IF i = 0 THEN EmptyDict
            ELSE create_session(Sessions[i - 1],
                                Users[i].google_id_index[subs[i]],
                                hash_refresh_token(RefreshToken(i)),
                                REFRESH_TOKEN_EXPIRE_DAYS, 0)
    IN  [users |-> Users[Len(subs)].users,
         google_id_index |-> Users[Len(subs)].google_id_index,
         email_index |-> Users[Len(subs)].email_index,
         sessions |-> Sessions[Len(subs)],
         issued |-> [k \in 1..Len(subs) |->
                       [state |-> StateToken(k), code_verifier |-> Verifier(k),
                        nonce |-> Nonce(k), saved_at |-> 0]],
         logins |-> [j \in 1..Len(subs) |->
                       [refresh_token |-> RefreshToken(j),
                        user_id |-> Users[j].google_id_index[subs[j]],
                        created_at |-> 0]]]

InitLogout ==
    /\ InitQuiet /\ jwt = NoJwt /\ aead = NoAead /\ NoVault
    /\ \E subs \in {<<"g1", "g1">>, <<"g1", "g2">>} :
          \E after \in {AfterLogins(subs)} :
              /\ users = after.users
              /\ google_id_index = after.google_id_index
              /\ email_index = after.email_index
              /\ sessions = after.sessions
              /\ issued = after.issued
              /\ logins = after.logins
              /\ concurrent = [j \in 1..Len(subs) |-> {}]

\* the access tokens a client holds: the one its login returned, the one the
\* response before this request returned, the one it presented before
AccessTokensHeld ==
    {create_access_token(logins[j].user_id, users[logins[j].user_id].email,
                         logins[j].created_at) : j \in 1..Len(logins)}
    \cup {last.body[1].access_token : x \in {k \in {1} : /\ last.kind = "refresh"
                                                          /\ last.status = 200}}
    \cup {jwt.token[k] : k \in 1..Len(jwt.token)}

\* GET /api/auth/me with `Authorization: Bearer <access_token>`
GetMeWith(access_token) ==
    /\ \E answer \in {me("Bearer", access_token, users, now)} :
          /\ jwt' = [jwt EXCEPT !.token = Some(access_token),
                                !.result = Some(Verdict("me", "Bearer", access_token,
                                                        answer.status = 200, "", answer))]
          /\ last' = Response([IdleReq EXCEPT !.kind = "me"], answer.status, answer.detail,
                              answer.body)
    /\ UNCHANGED <<now, ticks, storeVars, req, issued, logins, loggedOut, raceVars,
                   concurrent, revoked, aead, vaultVars, held>>

NextLogout ==
    \/ Tick
    \/ Refresh
    \/ Logout
    \/ \E access_token \in AccessTokensHeld : GetMeWith(access_token)

SpecLogout == InitLogout /\ [][NextLogout]_vars

----------------------------------------------------------------------------
(* Properties of failed callbacks, expiry, locks and logout *)

\* the status the token endpoint answered a handler with these locals, 0 when
\* the POST has not been answered
AnsweredOutside2xx(locals) ==
    locals.status_code # 0 /\ locals.status_code \notin 200..299

\* C32: a callback whose token endpoint answered with a status outside
\* 200-299 (1xx and 3xx included) fails with the token-exchange error: it
\* never goes on to the key set, and its response is 401 "Token exchange
\* failed"
C32_NonSuccessStatus ==
    /\ \A r \in Slots : req[r].kind = "callback" => ~AnsweredOutside2xx(req[r])
    /\ last.kind = "callback" /\ AnsweredOutside2xx(last.req)
          => last.status = 401 /\ last.detail = "Token exchange failed"

\* C33: get_session, as refresh_access_token calls it, for a hash whose
\* session has expired returns None and removes that session, and only that
\* one, in the same call; for a session that has not expired it returns the
\* session and leaves the store as it was; the session of a login is usable
\* for a refresh at every time up to its creation plus
\* REFRESH_TOKEN_EXPIRE_DAYS and at no time after.
C33_SessionExpiry ==
    [][last'.kind = "refresh" =>
          LET h == hash_refresh_token(last'.req.refresh_token)
              got == get_session(sessions, h, now)
          IN  /\ sessions' = got.sessions
              /\ h \in DOMAIN sessions =>
                    IF now > sessions[h].expires_at
                    THEN /\ got.ret = None /\ last'.status = 401
                         /\ DOMAIN sessions' = (DOMAIN sessions) \ {h}
                         /\ \A g \in DOMAIN sessions' : sessions'[g] = sessions[g]
                    ELSE /\ got.ret = Some(sessions[h]) /\ last'.status = 200
                         /\ sessions' = sessions
              /\ \A j \in 1..Len(logins) :
                    ( /\ logins[j].refresh_token = last'.req.refresh_token
                      /\ last'.req.refresh_token \notin loggedOut )
                    => (last'.status = 200 <=> now <= logins[j].created_at + ThirtyDays)
      ]_vars

\* a refresh one second after the expiry of its session was refused and the
\* session is gone, while a session of a later login is still in the store
C33_Witness ==
    /\ last.kind = "refresh" /\ last.status = 401
    /\ DOMAIN sessions # {}
    /\ \E j \in 1..Len(logins) :
          /\ logins[j].refresh_token = last.req.refresh_token
          /\ last.req.refresh_token \notin loggedOut
          /\ now = logins[j].created_at + ThirtyDays + 1
          /\ hash_refresh_token(logins[j].refresh_token) \notin DOMAIN sessions

\* a request that is inside a store's lock
Inside(r) == {s \in Stores : held[s] = r}

\* C34: no request is inside the lock of the OAuth state store, the session
\* store or the user store while it awaits a provider call; a request is
\* inside a lock only while it runs the one store method it is at, and then
\* inside the lock of that method's store only.
C34_NoLockAcrossAwait ==
    \A r \in Slots :
        /\ req[r].pc = "await" => Inside(r) = {}
        /\ req[r].pc = "locked" => Inside(r) = {CurrentCall(req[r]).store}
        /\ req[r].pc \notin {"locked", "await"} => Inside(r) = {}

\* a callback awaits the token endpoint, past its get_oauth_state, while a
\* refresh is inside the lock of the session store
C34_Witness ==
    \E r, q \in Slots :
        /\ req[r].kind = "callback" /\ req[r].pc = "await"
        /\ CurrentCall(req[r]).method = "post"
        /\ req[q].kind = "refresh" /\ req[q].pc = "locked"
        /\ held = [s \in Stores |-> IF s = "session" THEN q ELSE 0]

\* a callback that took its state from the store and then failed
FailedAfterState(resp) ==
    resp.kind = "callback" /\ resp.req.lookup = "valid" /\ resp.status # 200

\* C35: a callback has consumed its state entry before it awaits any provider
\* call; when a callback with a valid state fails afterwards (discovery, token
\* exchange, key set, id-token validation, missing claims) the entry is gone,
\* and a second callback with the same state and code is refused with 400
\* "Invalid or expired state" and starts no provider call.
C35_FailedLoginNotRetried ==
    [][/\ \A r \in Slots :
             (req'[r].kind = "callback" /\ req'[r].pc \in {"discovery", "exchange", "jwks"})
             => req'[r].state \notin DOMAIN oauth_store'
       /\ FailedAfterState(last') => last'.req.state \notin DOMAIN oauth_store'
       /\ \A r \in Slots :
             (FailedAfterState(last) /\ CallbackStart(r, last.req.code, last.req.state))
             => /\ last'.kind = "callback" /\ last'.status = 400
                /\ last'.detail = "Invalid or expired state"
                /\ last'.req.lookup = "absent" /\ last'.req.steps = <<"state">>
                /\ req' = req
                /\ UNCHANGED storeVars
      ]_vars

\* the only state issued was consumed by a callback that did not log in, no
\* request is in flight, and a callback with that state has been refused
C35_Witness ==
    /\ Len(issued) = 1 /\ logins = <<>>
    /\ \A r \in Slots : req[r].pc = "idle"
    /\ last.kind = "callback" /\ last.status = 400
    /\ last.detail = "Invalid or expired state"
    /\ last.req.state = issued[1].state /\ last.req.lookup = "absent"

\* the entries cleanup_expired_states and cleanup_expired_sessions would remove
ExpiredStates == (DOMAIN oauth_store) \ DOMAIN cleanup_expired_states(oauth_store, now)
ExpiredSessions == (DOMAIN sessions) \ DOMAIN cleanup_expired_sessions(sessions, now)

\* C36: every OAuth state entry and every session whose expiry has passed is
\* eventually out of its store, whether or not a callback or a refresh
\* presents its key again
C36_ExpiredEventuallyRemoved ==
    /\ \A k \in 1..MaxInit :
          (StateToken(k) \in ExpiredStates) ~> (StateToken(k) \notin DOMAIN oauth_store)
    /\ \A j \in 1..MaxInit :
          (hash_refresh_token(RefreshToken(j)) \in ExpiredSessions)
              ~> (hash_refresh_token(RefreshToken(j)) \notin DOMAIN sessions)

\* C37: logout removes the session of the presented refresh token and no
\* other, and with a refresh token that matches no session it answers 204 and
\* leaves the sessions as they are; an access token that a login or a refresh
\* issued is accepted by get_current_user until its own expiry, whether or
\* not its session was logged out, and /me changes no session.
C37_LogoutKeepsAccessTokens ==
    [][/\ last'.kind = "logout" =>
             LET h == hash_refresh_token(last'.req.refresh_token)
             IN  /\ last'.status = 204 /\ last'.detail = ""
                 /\ sessions' = [g \in (DOMAIN sessions) \ {h} |-> sessions[g]]
                 /\ h \notin DOMAIN sessions => sessions' = sessions
                 /\ UNCHANGED <<users, google_id_index, email_index>>
       /\ last'.kind = "me" =>
             /\ last'.status = 200 <=> now <= jwt'.token[1].exp
             /\ last'.status = 200 => last'.body[1].id = jwt'.token[1].user_id
             /\ UNCHANGED storeVars
      ]_vars

\* every session of the identity has been logged out, and /me with an access
\* token that a refresh of one of these sessions issued after the login has
\* answered 200
C37_Witness ==
    /\ last.kind = "me" /\ last.status = 200
    /\ jwt.token[1].iat > 0
    /\ \A j \in 1..Len(logins) :
          logins[j].user_id = jwt.token[1].user_id
          => /\ logins[j].refresh_token \in loggedOut
             /\ hash_refresh_token(logins[j].refresh_token) \notin DOMAIN sessions
    /\ DOMAIN sessions # {}

\* C38: a successful callback for a subject id that has an identity returns
\* that identity with its id and its stored email, name and picture, whatever
\* the id token's claims say, writes nothing to the user store, adds one
\* session, under the hash of the returned refresh token, and leaves every
\* earlier session as it was.
C38_ReturningUser ==
    [][\A r \in Slots, claims \in Claims :
         ( /\ claims.sub \in DOMAIN google_id_index
           /\ CallbackJwksReturns(r, TRUE, claims)
           /\ last'.status = 200 )
         => LET user == users[google_id_index[claims.sub]]
                body == last'.body[1]
                h == hash_refresh_token(body.refresh_token)
            IN  /\ body.user = [id |-> user.id, email |-> user.email, name |-> user.name,
                                picture_url |-> user.picture_url]
                /\ body.access_token.user_id = user.id
                /\ UNCHANGED <<users, google_id_index, email_index>>
                /\ h \notin DOMAIN sessions
                /\ DOMAIN sessions' = (DOMAIN sessions) \cup {h}
                /\ sessions'[h].user_id = user.id
                /\ \A g \in DOMAIN sessions : sessions'[g] = sessions[g]
      ]_vars

\* the second login of an identity has returned it, and the identity holds
\* the session of its first login and the session of this one
C38_Witness ==
    /\ last.kind = "callback" /\ last.status = 200
    /\ Len(logins) = 2 /\ Cardinality(DOMAIN users) = 1
    /\ logins[1].user_id = last.body[1].user.id
    /\ logins[2].refresh_token = last.body[1].refresh_token
    /\ \A j \in 1..2 :
          /\ hash_refresh_token(logins[j].refresh_token) \in DOMAIN sessions
          /\ sessions[hash_refresh_token(logins[j].refresh_token)].user_id
                = last.body[1].user.id

\* the records with a soft-delete timestamp
Deleted(d) == {i \in 1..Len(d.vault_items) : d.vault_items[i].deleted_at # None}

\* C39: update_item and delete_item on a record that is soft-deleted return
\* None and leave the database as it is (the record's deleted_at, title,
\* encrypted content and metadata and its tags among the rest); no request
\* of any route clears or changes the deleted_at of a soft-deleted record.
C39_DeletedStaysDeleted ==
    [][/\ (vault' # None /\ Reached(vault'[2]) /\ db.session = "Session") =>
             LET op == vault'[1]
                 request == vault'[2]
             IN  /\ (op = "update_item" /\ request.args.item_id \in Deleted(db))
                       => /\ Result(request).ok /\ Value(request) = None
                          /\ db' = db
                 /\ (op = "delete_item" /\ request.args \in Deleted(db))
                       => /\ Result(request).ok /\ Value(request) = None
                          /\ db' = db
       /\ \A i \in Deleted(db) :
             /\ i \in 1..Len(db'.vault_items)
             /\ db'.vault_items[i].deleted_at = db.vault_items[i].deleted_at
      ]_vars

\* the owner of a soft-deleted record called delete_item on it again and got
\* None; the record is as it was
C39_Witness ==
    /\ Called("delete_item") /\ Request.args \in Deleted(db)
    /\ db.vault_items[Request.args].user_id = Request.user_id
    /\ Result(Request).ok /\ Value(Request) = None

====
